---- MODULE Spec2Model ----
(***************************************************************************)
(* Job orchestration of local-link-downloader (server/app.ts).             *)
(*                                                                         *)
(* The state is the per-instance job registry `jobs`, the closures of the  *)
(* retrieval engines started with setImmediate, the WebTorrent objects,    *)
(* the files of the destination folder, the pending unlink() calls and the *)
(* armed eviction timers.  Every request handler and every continuation of *)
(* an engine between two awaits is one action: Node runs each of them to   *)
(* completion before any other callback.                                   *)
(***************************************************************************)
EXTENDS Integers, Sequences, FiniteSets, TLC

\* ---------------------------------------------------------------- bounds
MaxJobs == 2        \* job ids handed out by randomUUID() in one run
MaxClock == 1       \* distinct millisecond readings of Date
MaxChunks == 1      \* chunks of a response body / pieces of a torrent
MaxSessions == 2    \* session tokens handed out by randomUUID() in one run
MaxExtraLogins == 2 \* login requests counted beyond the limiter's max
MaxNameLen == 2     \* characters of a filename a client sends

\* ------------------------------------------------------ program constants
THROTTLE_BYTES == 524288

Undef == -1         \* an optional numeric field that is undefined
NoMsg == "undefined"

Ids == 1..MaxJobs

Terminal == {"done", "error", "cancelled"}

\* ---------------------------------------------------------------- strings
\* A JavaScript string is the sequence of its characters.

Lower == <<"a", "b", "c", "d", "e", "f", "g", "h", "i", "j", "k", "l", "m",
           "n", "o", "p", "q", "r", "s", "t", "u", "v", "w", "x", "y", "z">>
Upper == <<"A", "B", "C", "D", "E", "F", "G", "H", "I", "J", "K", "L", "M",
           "N", "O", "P", "Q", "R", "S", "T", "U", "V", "W", "X", "Y", "Z">>
Digits == <<"0", "1", "2", "3", "4", "5", "6", "7", "8", "9">>

\* Position of character c in a table, 0 when it is not there.
IndexIn(c, tbl) ==
  IF \E i \in 1..Len(tbl) : tbl[i] = c
  THEN CHOOSE i \in 1..Len(tbl) : tbl[i] = c
  ELSE 0

IsDigit(c) == c \in {"0", "1", "2", "3", "4", "5", "6", "7", "8", "9"}
IsUpper(c) == c \in {"A", "B", "C", "D", "E", "F", "G", "H", "I", "J", "K", "L", "M",
                     "N", "O", "P", "Q", "R", "S", "T", "U", "V", "W", "X", "Y", "Z"}
IsLower(c) == c \in {"a", "b", "c", "d", "e", "f", "g", "h", "i", "j", "k", "l", "m",
                     "n", "o", "p", "q", "r", "s", "t", "u", "v", "w", "x", "y", "z"}
IsAlpha(c) == IsLower(c) \/ IsUpper(c)

\* String.prototype.toLowerCase
toLowerCase(s) ==
  [i \in 1..Len(s) |-> IF IsUpper(s[i]) THEN Lower[IndexIn(s[i], Upper)] ELSE s[i]]

\* String.prototype.trim: white space and line terminators at both ends.
IsSpace(c) == c \in {" ", "\t", "\n", "\r"}

RECURSIVE trim(_)
trim(s) ==
  IF s = <<>> THEN s
  ELSE IF IsSpace(s[1]) THEN trim(Tail(s))
  ELSE IF IsSpace(s[Len(s)]) THEN trim(SubSeq(s, 1, Len(s) - 1))
  ELSE s

\* String.prototype.indexOf / lastIndexOf for one character: 0-based, -1
\* when the character does not occur.
indexOf(s, c) ==
  LET at == {i \in 1..Len(s) : s[i] = c}
  IN IF at = {} THEN -1 ELSE (CHOOSE i \in at : \A k \in at : i <= k) - 1

lastIndexOf(s, c) ==
  LET at == {i \in 1..Len(s) : s[i] = c}
  IN IF at = {} THEN -1 ELSE (CHOOSE i \in at : \A k \in at : i >= k) - 1

\* String.prototype.substring(from) and substring(from, to), 0-based.
substring(s, from) == SubSeq(s, from + 1, Len(s))
substr(s, from, to) == SubSeq(s, from + 1, IF to < Len(s) THEN to ELSE Len(s))

\* String.prototype.startsWith
startsWith(s, p) == Len(p) <= Len(s) /\ SubSeq(s, 1, Len(p)) = p

\* Some sequence of characters of s, in a row, equals p.
Contains(s, p) ==
  \E i \in 1..(Len(s) - Len(p) + 1) : SubSeq(s, i, i + Len(p) - 1) = p

\* String.prototype.split for one separator character.
RECURSIVE split(_, _)
split(s, c) ==
  LET i == indexOf(s, c)
  IN IF i = -1 THEN <<s>>
     ELSE <<SubSeq(s, 1, i)>> \o split(substring(s, i + 1), c)

\* Array.prototype.join
RECURSIVE join(_, _)
join(parts, sep) ==
  IF parts = <<>> THEN <<>>
  ELSE IF Len(parts) = 1 THEN parts[1]
  ELSE parts[1] \o sep \o join(Tail(parts), sep)

\* ------------------------------------------------------ sanitizeFilename

MAX_FILENAME == 255

\* .replace(/\.\./g, ''): matches are found left to right, never in the
\* text a removal brings together.
RECURSIVE StripDotDot(_)
StripDotDot(s) ==
  LET at == {i \in 1..(Len(s) - 1) : s[i] = "." /\ s[i + 1] = "."}
      first == CHOOSE i \in at : \A k \in at : i <= k
  IN IF at = {} THEN s
     ELSE SubSeq(s, 1, first - 1) \o StripDotDot(SubSeq(s, first + 2, Len(s)))

\* .replace(/[/\\]/g, '')
IsSeparator(c) == c \in {"/", "\\"}
StripSeparators(s) == SelectSeq(s, LAMBDA c : ~IsSeparator(c))

\* .replace(/[^a-zA-Z0-9._-]/g, '_')
IsSafeChar(c) == IsAlpha(c) \/ IsDigit(c) \/ c \in {".", "_", "-"}
ReplaceUnsafe(s) == [i \in 1..Len(s) |-> IF IsSafeChar(s[i]) THEN s[i] ELSE "_"]

\* A sanitizer without the final .substring(0, 255).
sanitizeFilenameUncut(filename) ==
  ReplaceUnsafe(StripSeparators(StripDotDot(filename)))

sanitizeFilename(filename) ==
  substr(ReplaceUnsafe(StripSeparators(StripDotDot(filename))), 0, MAX_FILENAME)

\* ------------------------------------------------------------- path (POSIX)

\* Segments of a path with "." and empty segments dropped and ".." applied;
\* ".." at the root of an absolute path stays at the root.
RECURSIVE NormalizeSegments(_, _)
NormalizeSegments(done, rest) ==
  IF rest = <<>> THEN done
  ELSE IF rest[1] = <<>> \/ rest[1] = <<".">> THEN NormalizeSegments(done, Tail(rest))
  ELSE IF rest[1] = <<".", ".">>
  THEN NormalizeSegments(IF done = <<>> THEN done ELSE SubSeq(done, 1, Len(done) - 1),
                         Tail(rest))
  ELSE NormalizeSegments(Append(done, rest[1]), Tail(rest))

\* path.resolve(p) for an absolute p: normalised, no trailing separator.
resolve(p) == <<"/">> \o join(NormalizeSegments(<<>>, split(p, "/")), <<"/">>)

\* path.join(destinationFolder, filename) for an absolute folder.
JoinPath(folder, filename) == resolve(folder \o <<"/">> \o filename)

\* resolvedFull.startsWith(resolvedDest + path.sep)
InsideFolder(folder, fullPath) ==
  startsWith(resolve(fullPath), resolve(folder) \o <<"/">>)

\* ------------------------------------------------------------- new URL(url)
\* The WHATWG parser as far as these requests go: absolute URLs without
\* credentials, port, query or fragment.

URL_SCHEME_HTTP == <<"h", "t", "t", "p">>
URL_SCHEME_HTTPS == <<"h", "t", "t", "p", "s">>
URL_SCHEME_FTP == <<"f", "t", "p">>
SpecialSchemes == {URL_SCHEME_HTTP, URL_SCHEME_HTTPS, URL_SCHEME_FTP}

\* The parser threw.
BadURL == [ok |-> FALSE, protocol |-> <<>>, hostname |-> <<>>, pathname |-> <<>>]

IsSchemeChar(c) == IsAlpha(c) \/ IsDigit(c) \/ c \in {"+", "-", "."}
IsHostChar(c) == IsAlpha(c) \/ IsDigit(c) \/ c \in {".", "-", "_"}
AllDigits(s) == s # <<>> /\ \A i \in 1..Len(s) : IsDigit(s[i])

HexDigits == <<"0", "1", "2", "3", "4", "5", "6", "7", "8", "9", "a", "b", "c", "d", "e", "f">>
IsHexDigit(c) == IsDigit(c) \/ c \in {"a", "b", "c", "d", "e", "f", "A", "B", "C", "D", "E", "F"}
HasHexPrefix(s) == Len(s) >= 2 /\ s[1] = "0" /\ s[2] \in {"x", "X"}

\* A label the IPv4 parser takes for a number: digits, or 0x and hex digits.
IsNumber(s) ==
  \/ AllDigits(s)
  \/ HasHexPrefix(s) /\ \A i \in 3..Len(s) : IsHexDigit(s[i])

RECURSIVE Pow(_, _)
Pow(b, e) == IF e = 0 THEN 1 ELSE b * Pow(b, e - 1)

\* Numbers of the IPv4 parser are kept as two 16-bit halves <<hi, lo>>; hi
\* stops at WORD, which stands for any number of more than 32 bits.
WORD == 65536
NotANumber == <<-1, 0>>

DigitOf(c) == IndexIn(toLowerCase(<<c>>)[1], HexDigits) - 1
Capped(hi) == IF hi > WORD THEN WORD ELSE hi

\* The value of a string of digits in the given base, NotANumber when a
\* character is no digit of the base.
RECURSIVE DigitsValue(_, _, _, _)
DigitsValue(s, base, hi, lo) ==
  IF s = <<>> THEN <<hi, lo>>
  ELSE IF DigitOf(s[1]) < 0 \/ DigitOf(s[1]) >= base THEN NotANumber
  ELSE DigitsValue(Tail(s), base,
                   Capped(hi * base + (lo * base + DigitOf(s[1])) \div WORD),
                   (lo * base + DigitOf(s[1])) % WORD)

\* Number(s) for a string of one to three decimal digits.
DecimalValue(s) == DigitsValue(s, 10, 0, 0)[2]

\* A part of an IPv4 host: 0x makes it hexadecimal, a leading 0 octal.
ParseIPv4Number(s) ==
  IF HasHexPrefix(s) THEN DigitsValue(SubSeq(s, 3, Len(s)), 16, 0, 0)
  ELSE IF Len(s) > 1 /\ s[1] = "0" THEN DigitsValue(Tail(s), 8, 0, 0)
  ELSE DigitsValue(s, 10, 0, 0)

\* String(n) for n >= 0
RECURSIVE NumberToString(_)
NumberToString(n) ==
  IF n < 10 THEN <<Digits[n + 1]>> ELSE NumberToString(n \div 10) \o <<Digits[(n % 10) + 1]>>

\* A host whose last label is a number is an IPv4 address of one to four
\* parts; the last part fills the bytes that are left.  The result is the
\* address in dotted decimal, <<>> when the host is not a valid address.

\* The four bytes of a number of at most 32 bits.
BytesOf(x) == <<x[1] \div 256, x[1] % 256, x[2] \div 256, x[2] % 256>>

\* The last of n parts does not fit the bytes that are left.
LastTooBig(n, x) == IF n = 4 THEN x[1] > 0 \/ x[2] > 255 ELSE x[1] >= Pow(256, 3 - n)

\* Byte k of 4, counted from the left, of the address with parts v.
IPv4Byte(n, v, k) == IF k < n THEN v[k][2] ELSE BytesOf(v[n])[k]

IPv4FromParts(n, v) ==
  IF n > 4 \/ \E i \in 1..n : v[i] = NotANumber THEN <<>>
  ELSE IF \E i \in 1..(n - 1) : v[i][1] > 0 \/ v[i][2] > 255 THEN <<>>
  ELSE IF LastTooBig(n, v[n]) THEN <<>>
  ELSE join([k \in 1..4 |-> NumberToString(IPv4Byte(n, v, k))], <<".">>)

ParseIPv4(labels) ==
  IPv4FromParts(Len(labels),
                [i \in 1..Len(labels) |->
                   IF IsNumber(labels[i]) THEN ParseIPv4Number(labels[i]) ELSE NotANumber])

\* A dot at the end of a host closes its last label.
HostLabels(labels) ==
  IF Len(labels) > 1 /\ labels[Len(labels)] = <<>>
  THEN SubSeq(labels, 1, Len(labels) - 1) ELSE labels

ParseDomain(host, labels) ==
  IF IsNumber(labels[Len(labels)]) THEN ParseIPv4(labels) ELSE toLowerCase(host)

\* The host of a special URL: <<>> when it is not valid.
ParseHost(host) ==
  IF host = <<>> THEN <<>>
  ELSE IF host[1] = "[" THEN (IF host[Len(host)] = "]" THEN host ELSE <<>>)
  ELSE IF \E i \in 1..Len(host) : ~IsHostChar(host[i]) THEN <<>>
  ELSE ParseDomain(host, HostLabels(split(host, ".")))

\* The path of a special URL: "." and ".." segments are resolved, and one of
\* them at the end leaves an empty last segment.
DropLast(segs) == IF segs = <<>> THEN segs ELSE SubSeq(segs, 1, Len(segs) - 1)

RECURSIVE UrlSegments(_, _)
UrlSegments(done, rest) ==
  IF rest = <<>> THEN done
  ELSE IF rest[1] = <<".", ".">>
  THEN UrlSegments(IF Len(rest) = 1 THEN Append(DropLast(done), <<>>) ELSE DropLast(done),
                   Tail(rest))
  ELSE IF rest[1] = <<".">>
  THEN UrlSegments(IF Len(rest) = 1 THEN Append(done, <<>>) ELSE done, Tail(rest))
  ELSE UrlSegments(Append(done, rest[1]), Tail(rest))

RECURSIVE SkipSlashes(_)
SkipSlashes(s) == IF s # <<>> /\ IsSeparator(s[1]) THEN SkipSlashes(Tail(s)) ELSE s

SpecialURL(scheme, host, segs) ==
  IF host = <<>> THEN BadURL
  ELSE [ok |-> TRUE, protocol |-> scheme \o <<":">>, hostname |-> host,
        pathname |-> <<"/">> \o join(UrlSegments(<<>>, segs), <<"/">>)]

\* What follows the slashes of a special URL: the host up to the first "/",
\* then the path.
ParseAuthority(scheme, rest, slash) ==
  SpecialURL(scheme,
             ParseHost(IF slash = -1 THEN rest ELSE substr(rest, 0, slash)),
             IF slash = -1 THEN <<<<>>>> ELSE split(substring(rest, slash + 1), "/"))

ParseAfterScheme(scheme, rest) ==
  IF scheme \notin SpecialSchemes
  THEN [ok |-> TRUE, protocol |-> scheme \o <<":">>, hostname |-> <<>>, pathname |-> rest]
  ELSE ParseAuthority(scheme, SkipSlashes(rest), indexOf(SkipSlashes(rest), "/"))

ParseScheme(url, colon) ==
  IF colon < 1 \/ ~IsAlpha(url[1]) \/ \E i \in 1..colon : ~IsSchemeChar(url[i])
  THEN BadURL
  ELSE ParseAfterScheme(toLowerCase(substr(url, 0, colon)), substring(url, colon + 1))

ParseURL(url) == ParseScheme(url, indexOf(url, ":"))

\* ----------------------------------------------------------- isInternalIP

LOCALHOST == <<"l", "o", "c", "a", "l", "h", "o", "s", "t">>

\* hostname.match(/^(\d{1,3})\.(\d{1,3})\.(\d{1,3})\.(\d{1,3})$/)
MatchIPv4(hostname) ==
  LET parts == split(hostname, ".")
  IN IF Len(parts) = 4 /\ \A i \in 1..4 : AllDigits(parts[i]) /\ Len(parts[i]) <= 3
     THEN [i \in 1..4 |-> DecimalValue(parts[i])]
     ELSE <<>>

\* A guard that takes all of 172.16.0.0 and above for private.
isInternalIPNoUpper(hostname) ==
  LET parts == MatchIPv4(hostname)
  IN IF hostname = LOCALHOST THEN TRUE
     ELSE IF parts = <<>> THEN FALSE
     ELSE IF parts[1] = 10 THEN TRUE
     ELSE IF parts[1] = 172 /\ parts[2] >= 16 THEN TRUE
     ELSE IF parts[1] = 192 /\ parts[2] = 168 THEN TRUE
     ELSE IF parts[1] = 127 THEN TRUE
     ELSE IF parts[1] = 169 /\ parts[2] = 254 THEN TRUE
     ELSE FALSE

isInternalIP(hostname) ==
  LET parts == MatchIPv4(hostname)
  IN IF hostname = LOCALHOST THEN TRUE
     ELSE IF parts = <<>> THEN FALSE
     ELSE IF parts[1] = 10 THEN TRUE
     ELSE IF parts[1] = 172 /\ parts[2] >= 16 /\ parts[2] <= 31 THEN TRUE
     ELSE IF parts[1] = 192 /\ parts[2] = 168 THEN TRUE
     ELSE IF parts[1] = 127 THEN TRUE
     ELSE IF parts[1] = 169 /\ parts[2] = 254 THEN TRUE
     ELSE FALSE

\* ---------------------------------------------------- parseFolderMapping
\* A Map is the sequence of its entries in insertion order: set() replaces
\* the value of a key it holds and appends any other key, get() of an absent
\* key is undefined (the empty string here).

MapSet(m, k, v) ==
  IF \E i \in 1..Len(m) : m[i].key = k
  THEN [i \in 1..Len(m) |-> IF m[i].key = k THEN [key |-> k, value |-> v] ELSE m[i]]
  ELSE Append(m, [key |-> k, value |-> v])

MapHas(m, k) == \E i \in 1..Len(m) : m[i].key = k

MapGet(m, k) ==
  IF MapHas(m, k) THEN m[CHOOSE i \in 1..Len(m) : m[i].key = k].value ELSE <<>>

\* Array.from(mapping.keys())
MapKeys(m) == [i \in 1..Len(m) |-> m[i].key]

\* The split that cuts an entry at every ':'.
FolderPairAtEveryColon(mapping, pair, colonIdx) ==
  IF colonIdx = -1 \/ Len(split(pair, ":")) # 2 THEN mapping
  ELSE IF trim(split(pair, ":")[1]) # <<>> /\ trim(split(pair, ":")[2]) # <<>>
  THEN MapSet(mapping, trim(split(pair, ":")[1]), trim(split(pair, ":")[2]))
  ELSE mapping

\* One turn of the loop over the pairs, colonIdx = pair.indexOf(':').
FolderPair(mapping, pair, colonIdx) ==
  IF colonIdx = -1 THEN mapping
  ELSE IF trim(substr(pair, 0, colonIdx)) # <<>> /\ trim(substring(pair, colonIdx + 1)) # <<>>
  THEN MapSet(mapping, trim(substr(pair, 0, colonIdx)), trim(substring(pair, colonIdx + 1)))
  ELSE mapping

RECURSIVE FolderPairs(_, _)
FolderPairs(mapping, pairs) ==
  IF pairs = <<>> THEN mapping
  ELSE FolderPairs(FolderPair(mapping, Head(pairs), indexOf(Head(pairs), ":")), Tail(pairs))

parseFolderMapping(downloadFoldersEnv) ==
  IF downloadFoldersEnv = <<>> THEN <<>>
  ELSE FolderPairs(<<>>, split(downloadFoldersEnv, ";"))

\* ------------------------------------------------------------ configuration
\* DOWNLOAD_FOLDERS=files:/d unless a specification says otherwise.
FILES == <<"f", "i", "l", "e", "s">>
NOKEY == <<"n", "o", "k", "e", "y">>
FolderDir == <<"/", "d">>
DOWNLOAD_FOLDERS == FILES \o <<":">> \o FolderDir
RequestKeys == {FILES, NOKEY}
Filenames == {<<"a", ".", "t">>, <<"b", ".", "t">>}
Urls == {<<"h", "t", "t", "p", "s", ":", "/", "/", "e", ".", "c", "o", "/", "x">>}
ChunkSizes == {1, THROTTLE_BYTES}
Totals == {Undef, 2 * THROTTLE_BYTES}

FilePaths == {JoinPath(FolderDir, f) : f \in Filenames}

\* A file on disk: who wrote it (0: no file) and whether the write finished.
Absent == [by |-> 0, complete |-> FALSE]

VARIABLES
  jobs,       \* Map<string, DownloadJob>: job id -> record
  eng,        \* job id -> closure of the engine started by setImmediate
  swarm,      \* job id -> the WebTorrent torrent object returned by client.add
  wtClient,   \* _wtClient: 0 for null, else the WebTorrent client it refers to,
              \* clients being numbered as they are constructed
  files,      \* file path -> content on disk
  unlinks,    \* ids of the HTTP jobs whose unlink(fullPath) is in flight
  timers,     \* ids of the jobs with an armed 24h eviction timer
  accepted,   \* ids of the jobs on which DELETE answered 200
  nextId,     \* next fresh job id
  now,        \* Date reading, milliseconds
  reply,      \* response sent by the step just taken
  env,        \* process.env: APP_PASSWORD, ALLOWED_EXTENSIONS, DOWNLOAD_FOLDERS
  sessions,   \* Map<string, number>: session token -> expiry
  hits,       \* store of authLimiter: client -> requests counted, window end
  nextToken,  \* next fresh session token
  request     \* Authorization header of the request just answered

vars == <<jobs, eng, swarm, wtClient, files, unlinks, timers, accepted, nextId, now, reply,
          env, sessions, hits, nextToken, request>>

NoReply ==
  [op |-> "none", id |-> 0, code |-> 0, status |-> "none", body |-> <<>>, error |-> "",
   detail |-> <<>>]

Reply(op, id, code, status) ==
  [op |-> op, id |-> id, code |-> code, status |-> status, body |-> <<>>, error |-> "",
   detail |-> <<>>]

\* res.status(code).json({ error })
Reject(op, code, error) ==
  [op |-> op, id |-> 0, code |-> code, status |-> "none", body |-> <<>>, error |-> error,
   detail |-> <<>>]

\* A lookup that answers 200 with an empty body for an unknown id.
NotFoundEmpty(op, id) == Reply(op, id, 200, "none")

\* res.status(404).json({ error: 'Job not found' })
NotFound(op, id) == [Reply(op, id, 404, "none") EXCEPT !.error = "Job not found"]

\* The request a client sends: no Authorization header (or `Bearer <token>`,
\* or another scheme), and the fields of an empty body.
NoHeader ==
  [scheme |-> "", token |-> 0, url |-> <<>>, filename |-> <<>>,
   password |-> [type |-> "undefined", value |-> <<>>, items |-> <<>>], file |-> FALSE, folderKey |-> <<>>]

\* APP_PASSWORD unset, ALLOWED_EXTENSIONS unset.
DefaultEnv ==
  [password |-> <<>>, allowedExtensions |-> <<>>, downloadFolders |-> DOWNLOAD_FOLDERS]

\* parseFolderMapping(process.env.DOWNLOAD_FOLDERS || '')
FolderMapping == parseFolderMapping(env.downloadFolders)

\* folderMapping.has(folderKey)
FolderKnown(folderKey) == MapHas(FolderMapping, folderKey)

\* const destinationFolder = folderMapping.get(folderKey)!
DestinationFolder(folderKey) == MapGet(FolderMapping, folderKey)

\* ------------------------------------------------------------ job records

NewHttpJob(id, url, folderKey, filename, t) ==
  [id |-> id, url |-> url, folderKey |-> folderKey, filename |-> filename,
   destPath |-> JoinPath(DestinationFolder(folderKey), filename), status |-> "queued",
   message |-> NoMsg, totalBytes |-> Undef, downloadedBytes |-> Undef,
   createdAt |-> t, updatedAt |-> t, abortController |-> TRUE,
   type |-> "undefined", peers |-> Undef, downloadSpeed |-> Undef,
   torrentRef |-> FALSE]

\* url: `[upload] ${filename}`
UploadTag == <<"[", "u", "p", "l", "o", "a", "d", "]", " ">>

\* An upload registered before its file is written.
NewUploadJobQueued(id, folderKey, filename, t) ==
  [id |-> id, url |-> UploadTag \o filename, folderKey |-> folderKey, filename |-> filename,
   destPath |-> JoinPath(DestinationFolder(folderKey), filename), status |-> "queued",
   message |-> NoMsg, totalBytes |-> Undef, downloadedBytes |-> Undef,
   createdAt |-> t, updatedAt |-> t, abortController |-> FALSE,
   type |-> "undefined", peers |-> Undef, downloadSpeed |-> Undef,
   torrentRef |-> FALSE]

NewUploadJob(id, folderKey, filename, t) ==
  [id |-> id, url |-> UploadTag \o filename, folderKey |-> folderKey, filename |-> filename,
   destPath |-> JoinPath(DestinationFolder(folderKey), filename), status |-> "done",
   message |-> "Uploaded", totalBytes |-> Undef, downloadedBytes |-> Undef,
   createdAt |-> t, updatedAt |-> t, abortController |-> FALSE,
   type |-> "undefined", peers |-> Undef, downloadSpeed |-> Undef,
   torrentRef |-> FALSE]

NewTorrentJob(id, src, folderKey, t) ==
  [id |-> id, url |-> src, folderKey |-> folderKey, filename |-> <<>>,
   destPath |-> DestinationFolder(folderKey), status |-> "queued",
   message |-> NoMsg, totalBytes |-> Undef, downloadedBytes |-> Undef,
   createdAt |-> t, updatedAt |-> t, abortController |-> FALSE,
   type |-> "torrent", peers |-> Undef, downloadSpeed |-> Undef,
   torrentRef |-> FALSE]

\* The kind of a job as the spec names it, read off the record.
Kind(job) ==
  IF job.type = "torrent" THEN "torrent"
  ELSE IF startsWith(job.url, UploadTag) THEN "upload" ELSE "http"

\* Closure of an engine: program point, captured fullPath, the state of
\* abortController.signal, and the locals of downloadFile.
NewEngine(kind, fullPath) ==
  [kind |-> kind, pc |-> "immediate", fullPath |-> fullPath, aborted |-> FALSE,
   total |-> Undef, downloaded |-> 0, lastReported |-> 0, nread |-> 0,
   interval |-> FALSE, outcome |-> "none", responseStatus |-> 0]

\* Locals are dead once the engine has returned.
Finished(e) ==
  [e EXCEPT !.pc = "finished", !.total = Undef, !.downloaded = 0,
            !.lastReported = 0, !.nread = 0, !.interval = FALSE]

\* The state after buildApp() in a process with environment e, with r the
\* request a client is about to send.
InitRequest(e, r) ==
  /\ jobs = <<>>
  /\ eng = <<>>
  /\ swarm = <<>>
  /\ wtClient = 0
  /\ files = [p \in FilePaths |-> Absent]
  /\ unlinks = {}
  /\ timers = {}
  /\ accepted = {}
  /\ nextId = 1
  /\ now = 0
  /\ reply = NoReply
  /\ env = e
  /\ sessions = <<>>
  /\ hits = <<>>
  /\ nextToken = 1
  /\ request = r

\* The state after buildApp() in a process with environment e.
InitEnv(e) == InitRequest(e, NoHeader)

Init == InitEnv(DefaultEnv)

\* ------------------------------------------------------------------ auth

SESSION_TTL_MS == 28800000
AUTH_WINDOW_MS == 900000
AUTH_MAX == 10

isAuthEnabled == env.password # <<>>

\* The value of `password` in a JSON body: absent, a string, an array of
\* numbers, a number.
Undefined == [type |-> "undefined", value |-> <<>>, items |-> <<>>]
Str(s) == [type |-> "string", value |-> s, items |-> <<>>]
Arr(a) == [type |-> "array", value |-> <<>>, items |-> a]
Num == [type |-> "number", value |-> <<>>, items |-> <<>>]

\* A character outside ASCII, U+00E9.
E_ACUTE == "U+00E9"

\* The code of a character: letters, digits, the space and U+00E9.
CharCode(c) ==
  IF IsLower(c) THEN 96 + IndexIn(c, Lower)
  ELSE IF IsUpper(c) THEN 64 + IndexIn(c, Upper)
  ELSE IF IsDigit(c) THEN 47 + IndexIn(c, Digits)
  ELSE IF c = E_ACUTE THEN 233
  ELSE 32

\* UTF-8: one byte below U+0080, two bytes below U+0800.
Utf8(code) ==
  IF code < 128 THEN <<code>> ELSE <<192 + (code \div 64), 128 + (code % 64)>>

RECURSIVE Utf8String(_)
Utf8String(s) == IF s = <<>> THEN <<>> ELSE Utf8(CharCode(Head(s))) \o Utf8String(Tail(s))

\* Buffer.from(value): the UTF-8 encoding of a string, the elements of an
\* array taken modulo 256.
BufferFrom(v) ==
  IF v.type = "string" THEN Utf8String(v.value)
  ELSE [i \in 1..Len(v.items) |-> v.items[i] % 256]

\* value.length: code units of a string, elements of an array, undefined
\* for a number.
LengthOf(v) ==
  IF v.type = "string" THEN Len(v.value)
  ELSE IF v.type = "array" THEN Len(v.items)
  ELSE Undef

\* timingSafeEqual(a, b) throws a RangeError when the byte lengths differ.
timingSafeEqual(a, b) ==
  IF Len(a) # Len(b) THEN "throws" ELSE IF a = b THEN "true" ELSE "false"

\* provided = password ?? ''; lengthMatch && timingSafeEqual(Buffer.from(provided),
\* Buffer.from(expected))
ValueMatch(password) ==
  IF LengthOf(IF password.type = "undefined" THEN Str(<<>>) ELSE password) # Len(env.password)
  THEN "false"
  ELSE timingSafeEqual(BufferFrom(IF password.type = "undefined" THEN Str(<<>>) ELSE password),
                       BufferFrom(Str(env.password)))

\* authHeader.startsWith('Bearer ') ? authHeader.slice(7) : ''
BearerToken(header) == IF header.scheme = "Bearer" THEN header.token ELSE 0

\* A check that trusts any token it has ever issued.
isValidSessionEver(token) == token \in DOMAIN sessions

\* isValidSession: the token is known and now is not past its expiry.
isValidSession(token) == token \in DOMAIN sessions /\ ~(now > sessions[token])

\* A check that leaves an expired token in the table.
SessionsKept(token) == sessions

\* isValidSession deletes the token it finds expired.
SessionsChecked(token) ==
  IF token \in DOMAIN sessions /\ now > sessions[token]
  THEN [t \in DOMAIN sessions \ {token} |-> sessions[t]]
  ELSE sessions

\* authMiddleware in front of a handler: next() or 401.
Authed(op, header, Handler) ==
  /\ request' = header
  /\ IF ~isAuthEnabled
     THEN /\ sessions' = sessions
          /\ Handler
     ELSE IF isValidSession(BearerToken(header))
     THEN /\ sessions' = sessions
          /\ Handler
     ELSE /\ sessions' = SessionsChecked(BearerToken(header))
          /\ reply' = Reject(op, 401, "Unauthorized")
          /\ UNCHANGED <<jobs, eng, swarm, wtClient, files, unlinks, timers, accepted,
                         nextId, now, env, hits, nextToken>>

\* The store of authLimiter for one client: the window a request falls in
\* starts with the first request counted in it.
NoHits == [count |-> 0, resetTime |-> 0]
CurrentHits(client) ==
  IF client \in DOMAIN hits /\ hits[client].resetTime > now
  THEN hits[client]
  ELSE [count |-> 0, resetTime |-> now + AUTH_WINDOW_MS]

\* A limiter that lets max + 1 requests through.
OverLimitLax(count) == count > AUTH_MAX + 1

\* max: 10
OverLimit(count) == count > AUTH_MAX

\* createSession: the new token, and every expired one purged.
createSession(token) ==
  LET added == (token :> (now + SESSION_TTL_MS)) @@ sessions
  IN [t \in {u \in DOMAIN added : ~(now > added[u])} |-> added[t]]

\* POST /api/auth behind authLimiter.  An exception thrown by the handler is
\* answered 500 by the error handler of Express.
PostAuth(client, password) ==
  LET h == [CurrentHits(client) EXCEPT !.count = @ + 1]
      valueMatch == ValueMatch(password)
  IN /\ h.count <= AUTH_MAX + MaxExtraLogins
     /\ (~OverLimit(h.count) /\ isAuthEnabled /\ valueMatch = "true") => nextToken <= MaxSessions
     /\ hits' = (client :> h) @@ hits
     /\ request' = request
     /\ IF OverLimit(h.count)
        THEN /\ reply' = Reject("auth", 429, "Too many login attempts, please try again later")
             /\ UNCHANGED <<sessions, nextToken>>
        ELSE IF ~isAuthEnabled
        THEN /\ reply' = Reply("auth", 0, 200, "no-auth")
             /\ UNCHANGED <<sessions, nextToken>>
        ELSE IF valueMatch = "throws"
        THEN /\ reply' = Reject("auth", 500, "Internal Server Error")
             /\ UNCHANGED <<sessions, nextToken>>
        ELSE IF valueMatch = "false"
        THEN /\ reply' = Reject("auth", 401, "Invalid password")
             /\ UNCHANGED <<sessions, nextToken>>
        ELSE /\ sessions' = createSession(nextToken)
             /\ nextToken' = nextToken + 1
             /\ reply' = Reply("auth", nextToken, 200, "token")
     /\ UNCHANGED <<jobs, eng, swarm, wtClient, files, unlinks, timers, accepted, nextId, now, env>>

\* GET /api/config
GetConfig ==
  /\ reply' = [Reply("config", 0, 200, "none") EXCEPT !.body = MapKeys(FolderMapping)]
  /\ UNCHANGED <<jobs, eng, swarm, wtClient, files, unlinks, timers, accepted, nextId, now,
                 env, hits, nextToken>>

\* ---------------------------------------------------- POST /api/download

\* (process.env.ALLOWED_EXTENSIONS || '').split(',')
\*   .map((ext) => ext.trim().toLowerCase()).filter((ext) => ext.length > 0)
AllowedExtensions(raw) ==
  LET entries == split(raw, ",")
  IN SelectSeq([i \in 1..Len(entries) |-> toLowerCase(trim(entries[i]))],
               LAMBDA e : Len(e) > 0)

\* An extension compared as it is written.
FileExtAsWritten(filename) == substring(filename, lastIndexOf(filename, "."))

\* filename.substring(dotIdx).toLowerCase()
FileExt(filename) == toLowerCase(substring(filename, lastIndexOf(filename, ".")))

\* The extension check of the download and upload handlers: "" when the
\* filename passes.
ExtensionError(filename, allowedExtensions) ==
  IF Len(allowedExtensions) = 0 THEN ""
  ELSE IF lastIndexOf(filename, ".") = -1
  THEN "File has no extension. An extension is required."
  ELSE IF \A i \in 1..Len(allowedExtensions) : allowedExtensions[i] # FileExt(filename)
  THEN "File extension is not allowed"
  ELSE ""

DOWNLOAD == <<"d", "o", "w", "n", "l", "o", "a", "d">>

\* s || d
OrDefault(s, d) == IF s = <<>> THEN d ELSE s

\* urlPath.substring(urlPath.lastIndexOf('/') + 1)
LastSegment(pathname) == substring(pathname, lastIndexOf(pathname, "/") + 1)

\* The filename of a download: the override, or the last segment of the
\* URL's path, sanitized; 'download' when nothing is left.
DownloadFilename(pathname, filenameOverride) ==
  OrDefault(sanitizeFilename(IF filenameOverride # <<>> THEN filenameOverride
                             ELSE OrDefault(LastSegment(pathname), DOWNLOAD)),
            DOWNLOAD)

\* The outcome of the checks of an admission: the error of the first check
\* that fails ("" when all pass), the filename and the path.
Admission(error, filename, fullPath) ==
  [error |-> error, filename |-> filename, fullPath |-> fullPath]

\* Path guard that forgets the separator.
PathErrorNoSep(folder, filename) ==
  IF ~startsWith(resolve(JoinPath(folder, filename)), resolve(folder))
  THEN "Path traversal detected" ELSE ""

\* if (!resolvedFull.startsWith(resolvedDest + path.sep)) -> 400
PathError(folder, filename) ==
  IF ~InsideFolder(folder, JoinPath(folder, filename))
  THEN "Path traversal detected" ELSE ""

\* The path guard, then the extension check.
CheckedFilenamePathFirst(folder, filename, extError) ==
  IF PathError(folder, filename) # "" THEN Admission(PathError(folder, filename), filename, <<>>)
  ELSE Admission(extError, filename, JoinPath(folder, filename))

\* The extension check, then the path guard.
CheckedFilename(folder, filename, extError) ==
  IF extError # "" THEN Admission(extError, filename, <<>>)
  ELSE Admission(PathError(folder, filename), filename, JoinPath(folder, filename))

CheckFilename(folder, filename) ==
  CheckedFilename(folder, filename,
                  ExtensionError(filename, AllowedExtensions(env.allowedExtensions)))

\* The checks of POST /api/download on the parsed URL, in the order of the
\* handler.
CheckParsed(parsedUrl, folderKey, filenameOverride) ==
  IF ~parsedUrl.ok THEN Admission("Invalid URL format", <<>>, <<>>)
  ELSE IF parsedUrl.protocol # URL_SCHEME_HTTP \o <<":">>
          /\ parsedUrl.protocol # URL_SCHEME_HTTPS \o <<":">>
  THEN Admission("Only HTTP and HTTPS protocols are allowed", <<>>, <<>>)
  ELSE IF isInternalIP(parsedUrl.hostname)
  THEN Admission("Internal/private IP addresses are not allowed", <<>>, <<>>)
  ELSE IF ~FolderKnown(folderKey) THEN Admission("Invalid folder key", <<>>, <<>>)
  ELSE CheckFilename(DestinationFolder(folderKey),
                     DownloadFilename(parsedUrl.pathname, filenameOverride))

\* Validation of POST /api/download.
DownloadAdmission(url, folderKey, filenameOverride) ==
  IF url = <<>> \/ folderKey = <<>>
  THEN Admission("Missing required fields: url and folderKey", <<>>, <<>>)
  ELSE CheckParsed(ParseURL(url), folderKey, filenameOverride)

\* res.status(400).json({ error }): the extension error names fileExt.
RejectAdmission(op, a) ==
  [op |-> op, id |-> 0, code |-> 400, status |-> "none", body |-> <<>>, error |-> a.error,
   detail |-> IF a.error = "File extension is not allowed" THEN FileExt(a.filename) ELSE <<>>]

\* The handler once its checks are made.
DownloadAdmitted(url, folderKey, a) ==
  IF a.error # ""
  THEN /\ reply' = RejectAdmission("download", a)
       /\ UNCHANGED <<jobs, eng, nextId>>
  ELSE /\ jobs' = jobs @@ (nextId :> NewHttpJob(nextId, url, folderKey, a.filename, now))
       /\ eng' = eng @@ (nextId :> NewEngine("http", a.fullPath))
       /\ nextId' = nextId + 1
       /\ reply' = Reply("download", nextId, 200, "queued")

\* A handler that refuses a download whose file another job is to write.
PostDownloadOnePerFile(url, folderKey, filenameOverride) ==
  /\ nextId <= MaxJobs
  /\ IF \E k \in DOMAIN jobs :
          jobs[k].destPath = DownloadAdmission(url, folderKey, filenameOverride).fullPath
     THEN /\ reply' = Reject("download", 400, "Destination in use")
          /\ UNCHANGED <<jobs, eng, nextId>>
     ELSE DownloadAdmitted(url, folderKey, DownloadAdmission(url, folderKey, filenameOverride))
  /\ UNCHANGED <<swarm, wtClient, files, unlinks, timers, accepted, now, env, hits, nextToken>>

PostDownload(url, folderKey, filenameOverride) ==
  /\ nextId <= MaxJobs
  /\ DownloadAdmitted(url, folderKey, DownloadAdmission(url, folderKey, filenameOverride))
  /\ UNCHANGED <<swarm, wtClient, files, unlinks, timers, accepted, now, env, hits, nextToken>>

\* ------------------------------------------------------ downloadFile

ResCancelled == [success |-> FALSE, cancelled |-> TRUE, message |-> NoMsg, totalBytes |-> Undef]
ResError(m) == [success |-> FALSE, cancelled |-> FALSE, message |-> m, totalBytes |-> Undef]
ResOk(n) == [success |-> TRUE, cancelled |-> FALSE, message |-> NoMsg, totalBytes |-> n]

\* A catch that looks at the error's name only.
CatchResultByName(aborted, abortError, m) ==
  IF abortError THEN ResCancelled ELSE ResError(m)

\* catch (error) of downloadFile
CatchResult(aborted, abortError, m) ==
  IF aborted \/ abortError THEN ResCancelled ELSE ResError(m)

\* A threshold of THROTTLE_BYTES whatever the total.
ReachedThresholdFlat(delta, total) == delta >= THROTTLE_BYTES

\* downloaded - lastReported >= (total ? Math.max(total * 0.01, THROTTLE_BYTES) : THROTTLE_BYTES)
\* total is undefined or a positive integer; for such a total and an integer
\* delta, delta >= total * 0.01 in IEEE doubles is delta * 100 >= total.
ReachedThreshold(delta, total) ==
  IF total # Undef
  THEN delta * 100 >= total /\ delta >= THROTTLE_BYTES
  ELSE delta >= THROTTLE_BYTES

\* A progress callback that records the counters without the timestamp.
OnProgressUnstamped(js, j, downloaded, total) ==
  IF j \in DOMAIN js
  THEN [js EXCEPT ![j].downloadedBytes = downloaded,
                  ![j].totalBytes = IF total # Undef THEN total ELSE @]
  ELSE js

\* The onProgress callback handed to downloadFile by the engine.
OnProgress(js, j, downloaded, total) ==
  IF j \in DOMAIN js
  THEN [js EXCEPT ![j].downloadedBytes = downloaded,
                  ![j].totalBytes = IF total # Undef THEN total ELSE @,
                  ![j].updatedAt = now]
  ELSE js

\* An engine that reports a finished download as an error.
SettledJobNeverDone(job, result) ==
  IF result.cancelled
  THEN [job EXCEPT !.status = "cancelled", !.message = "Download cancelled"]
  ELSE [job EXCEPT !.status = "error", !.message = result.message]

\* Status, counters and message the engine writes for a result.
SettledJob(job, result) ==
  IF result.cancelled
  THEN [job EXCEPT !.status = "cancelled", !.message = "Download cancelled"]
  ELSE IF result.success
  THEN [job EXCEPT !.status = "done", !.downloadedBytes = result.totalBytes,
                   !.totalBytes = result.totalBytes, !.message = "Downloaded"]
  ELSE [job EXCEPT !.status = "error", !.message = result.message]

\* A completion that forgets to drop the controller.
ClearHandleKept(job) == [job EXCEPT !.updatedAt = now]

\* j.updatedAt = new Date().toISOString(); j.abortController = undefined;
ClearHandle(job) == [job EXCEPT !.updatedAt = now, !.abortController = FALSE]

\* What downloadFile returned, kept for the record of the run.
Outcome(result) ==
  IF result.cancelled THEN "cancelled" ELSE IF result.success THEN "success" ELSE "error"

\* Continuation of `await downloadFile(...)` in the setImmediate callback,
\* status being response.status if fetch() has resolved (0 if it has not),
\* kept with the outcome for the record of the run.
SettleResponse(j, js, result, status) ==
  /\ jobs' = [js EXCEPT ![j] = SettledJob(ClearHandle(js[j]), result)]
  /\ eng' = [eng EXCEPT ![j] = [Finished(@) EXCEPT !.outcome = Outcome(result),
                                                   !.responseStatus = status]]
  /\ unlinks' = IF result.cancelled THEN unlinks \cup {j} ELSE unlinks
  /\ timers' = timers \cup {j}

Settle(j, js, result) == SettleResponse(j, js, result, eng[j].responseStatus)

\* The responses a remote gives: status and reason phrase.
Responses ==
  {[status |-> 200, statusText |-> "OK"],
   [status |-> 404, statusText |-> "Not Found"],
   [status |-> 503, statusText |-> "Service Unavailable"]}

\* response.ok
Ok(response) == response.status >= 200 /\ response.status <= 299

\* A message that leaves the response out.
HttpErrorMessageBare(response) == "HTTP error"

\* `HTTP error: ${response.status} ${response.statusText}`
HttpErrorMessage(response) ==
  CASE response.status = 404 /\ response.statusText = "Not Found" ->
         "HTTP error: 404 Not Found"
    [] response.status = 503 /\ response.statusText = "Service Unavailable" ->
         "HTTP error: 503 Service Unavailable"
    [] response.status = 200 /\ response.statusText = "OK" ->
         "HTTP error: 200 OK"

\* An engine that starts without marking its job.
StartedSilently(job) == [job EXCEPT !.downloadedBytes = 0, !.updatedAt = now]

\* An engine that stamps the record as created when it starts.
StartedRestamped(job) ==
  [job EXCEPT !.status = "downloading", !.downloadedBytes = 0, !.updatedAt = now,
              !.createdAt = now]

\* j.status = 'downloading'; j.downloadedBytes = 0; j.updatedAt = new Date().toISOString();
Started(job) ==
  [job EXCEPT !.status = "downloading", !.downloadedBytes = 0, !.updatedAt = now]

\* setImmediate callback of POST /api/download up to the pending fetch().
HttpStart(j) ==
  /\ j \in DOMAIN eng
  /\ eng[j].kind = "http"
  /\ eng[j].pc = "immediate"
  /\ jobs' = [jobs EXCEPT ![j] = Started(@)]
  /\ eng' = [eng EXCEPT ![j].pc = "fetch"]
  /\ reply' = NoReply
  /\ UNCHANGED <<swarm, wtClient, files, unlinks, timers, accepted, nextId, now,
               env, sessions, hits, nextToken, request>>

\* fetch() settles.  An aborted signal rejects it with an AbortError.  totals:
\* the values of `total` that the content-length header of a response may give.
HttpFetch(j, totals) ==
  /\ j \in DOMAIN eng
  /\ eng[j].kind = "http"
  /\ eng[j].pc = "fetch"
  /\ reply' = NoReply
  /\ UNCHANGED <<swarm, wtClient, files, accepted, nextId, now,
               env, sessions, hits, nextToken, request>>
  /\ IF eng[j].aborted
     THEN Settle(j, jobs, CatchResult(TRUE, TRUE, "aborted"))
     ELSE \/ Settle(j, jobs, CatchResult(FALSE, FALSE, "fetch failed"))
          \/ \E response \in Responses :
               /\ ~Ok(response)
               /\ SettleResponse(j, jobs, ResError(HttpErrorMessage(response)),
                                 response.status)
          \/ \E response \in Responses, total \in totals :
               /\ Ok(response)
               /\ eng' = [eng EXCEPT ![j].pc = "read", ![j].total = total,
                                     ![j].responseStatus = response.status]
               /\ UNCHANGED <<jobs, unlinks, timers>>
          \/ \E response \in Responses :
               /\ Ok(response)
               /\ eng' = [eng EXCEPT ![j].pc = "arrayBuffer",
                                     ![j].responseStatus = response.status]
               /\ UNCHANGED <<jobs, unlinks, timers>>

HttpFetchDone(j) == HttpFetch(j, Totals)

\* reader.read() settles: a chunk, the end of the body, or a failure.  An
\* abort errors the body stream, so the pending read rejects; the test of
\* signal.aborted at the top of the loop runs in the continuation of the
\* read that delivered the chunk and sees the signal as that read did.
\* sizes: the lengths a chunk may have; maxChunks: the chunks of a body.
HttpRead(j, sizes, maxChunks) ==
  /\ j \in DOMAIN eng
  /\ eng[j].kind = "http"
  /\ eng[j].pc = "read"
  /\ reply' = NoReply
  /\ UNCHANGED <<swarm, wtClient, files, accepted, nextId, now,
               env, sessions, hits, nextToken, request>>
  /\ IF eng[j].aborted
     THEN Settle(j, jobs, CatchResult(TRUE, TRUE, "aborted"))
     ELSE \/ Settle(j, jobs, CatchResult(FALSE, FALSE, "read failed"))
          \/ \E size \in sizes :
               /\ eng[j].nread < maxChunks
               /\ LET d == eng[j].downloaded + size
                      report == ReachedThreshold(d - eng[j].lastReported, eng[j].total)
                  IN /\ eng' = [eng EXCEPT ![j].downloaded = d,
                                           ![j].nread = @ + 1,
                                           ![j].lastReported = IF report THEN d ELSE @]
                     /\ jobs' = IF report THEN OnProgress(jobs, j, d, eng[j].total) ELSE jobs
               /\ UNCHANGED <<unlinks, timers>>
          \/ /\ eng' = [eng EXCEPT ![j].pc = "write"]
             /\ jobs' = OnProgress(jobs, j, eng[j].downloaded, eng[j].total)
             /\ UNCHANGED <<unlinks, timers>>

HttpReadDone(j) == HttpRead(j, ChunkSizes, MaxChunks)

\* response.arrayBuffer() settles (a response without a body stream).
HttpBufferDone(j) ==
  /\ j \in DOMAIN eng
  /\ eng[j].kind = "http"
  /\ eng[j].pc = "arrayBuffer"
  /\ reply' = NoReply
  /\ UNCHANGED <<swarm, wtClient, files, accepted, nextId, now,
               env, sessions, hits, nextToken, request>>
  /\ IF eng[j].aborted
     THEN Settle(j, jobs, CatchResult(TRUE, TRUE, "aborted"))
     ELSE \/ Settle(j, jobs, CatchResult(FALSE, FALSE, "read failed"))
          \/ /\ eng' = [eng EXCEPT ![j].pc = "write"]
             /\ UNCHANGED <<jobs, unlinks, timers>>

\* writeFile(destPath, data) settles; it does not observe the signal.  A
\* failed write leaves the file as it was or truncated.
HttpWriteDone(j) ==
  /\ j \in DOMAIN eng
  /\ eng[j].kind = "http"
  /\ eng[j].pc = "write"
  /\ reply' = NoReply
  /\ UNCHANGED <<swarm, wtClient, accepted, nextId, now,
               env, sessions, hits, nextToken, request>>
  /\ \/ /\ files' = [files EXCEPT ![eng[j].fullPath] = [by |-> j, complete |-> TRUE]]
        /\ Settle(j, jobs, ResOk(eng[j].downloaded))
     \/ /\ \/ files' = files
           \/ files' = [files EXCEPT ![eng[j].fullPath] = [by |-> j, complete |-> FALSE]]
        /\ Settle(j, jobs, CatchResult(eng[j].aborted, FALSE, "write failed"))

\* unlink(fullPath).catch(() => {}) of the cancelled branch completes.
UnlinkDone(j) ==
  /\ j \in unlinks
  /\ unlinks' = unlinks \ {j}
  /\ files' = [files EXCEPT ![eng[j].fullPath] = Absent]
  /\ reply' = NoReply
  /\ UNCHANGED <<jobs, eng, swarm, wtClient, timers, accepted, nextId, now,
               env, sessions, hits, nextToken, request>>

\* ------------------------------------------------------ POST /api/upload

UPLOAD == <<"u", "p", "l", "o", "a", "d">>

\* req.file of multer: absent, or a buffer with its original name.
NoFile == [present |-> FALSE, originalname |-> <<>>]
File(originalname) == [present |-> TRUE, originalname |-> originalname]

\* sanitizeFilename(filenameOverride || req.file.originalname || 'upload')
UploadFilename(file, filenameOverride) ==
  OrDefault(sanitizeFilename(OrDefault(filenameOverride, OrDefault(file.originalname, UPLOAD))),
            UPLOAD)

\* Validation of POST /api/upload, in the order of the handler.
UploadAdmission(file, folderKey, filenameOverride) ==
  IF ~file.present THEN Admission("No file provided", <<>>, <<>>)
  ELSE IF folderKey = <<>> THEN Admission("Missing required field: folderKey", <<>>, <<>>)
  ELSE IF ~FolderKnown(folderKey) THEN Admission("Invalid folder key", <<>>, <<>>)
  ELSE CheckFilename(DestinationFolder(folderKey), UploadFilename(file, filenameOverride))

\* fs.writeFile creates the file it is asked to write.
WriteAt(fs, p, content) ==
  [q \in DOMAIN fs \cup {p} |-> IF q = p THEN content ELSE fs[q]]

\* The handler once its checks are made: writeFile(fullPath, req.file.buffer)
\* is awaited before the job exists.
UploadAdmitted(folderKey, a) ==
  IF a.error # ""
  THEN /\ reply' = RejectAdmission("upload", a)
       /\ UNCHANGED <<jobs, files, timers, nextId>>
  ELSE \/ /\ files' = WriteAt(files, a.fullPath, [by |-> nextId, complete |-> TRUE])
          /\ jobs' = jobs @@ (nextId :> NewUploadJob(nextId, folderKey, a.filename, now))
          /\ timers' = timers \cup {nextId}
          /\ nextId' = nextId + 1
          /\ reply' = Reply("upload", nextId, 200, "done")
       \/ /\ \/ files' = files
             \/ files' = WriteAt(files, a.fullPath, [by |-> 0, complete |-> FALSE])
          /\ reply' = Reject("upload", 500, "Failed to save file")
          /\ UNCHANGED <<jobs, timers, nextId>>

PostUpload(file, folderKey, filenameOverride) ==
  /\ nextId <= MaxJobs
  /\ UNCHANGED <<eng, swarm, wtClient, unlinks, accepted, now, env, hits, nextToken>>
  /\ UploadAdmitted(folderKey, UploadAdmission(file, folderKey, filenameOverride))

\* ----------------------------------------------------- POST /api/torrent

TorrentSources == {<<"m", "a", "g", "n", "e", "t", ":", "x">>}
TorrentLength == MaxChunks

\* The object client.add() returns, before any peer answered.
NewTorrent ==
  [destroyed |-> FALSE, ready |-> FALSE, done |-> FALSE, name |-> <<>>,
   length |-> 0, downloaded |-> 0, numPeers |-> 0, downloadSpeed |-> 0, client |-> 0]

MAGNET_PREFIX == <<"m", "a", "g", "n", "e", "t", ":">>
TORRENT_FILE == <<"[", "t", "o", "r", "r", "e", "n", "t", " ", "f", "i", "l", "e", "]">>

\* A validation that ends with the extension check of the other handlers,
\* made on the magnet link.
TorrentAdmissionWithExtensions(magnet, torrentBuffer, folderKey) ==
  IF folderKey = <<>> THEN "Missing required field: folderKey"
  ELSE IF magnet = <<>> /\ ~torrentBuffer THEN "Provide a magnet link or .torrent file"
  ELSE IF magnet # <<>> /\ ~startsWith(magnet, MAGNET_PREFIX) THEN "Invalid magnet link format"
  ELSE IF ~FolderKnown(folderKey) THEN "Invalid folder key"
  ELSE ExtensionError(magnet, AllowedExtensions(env.allowedExtensions))

\* Validation of POST /api/torrent: "" when the request is admitted.
TorrentAdmission(magnet, torrentBuffer, folderKey) ==
  IF folderKey = <<>> THEN "Missing required field: folderKey"
  ELSE IF magnet = <<>> /\ ~torrentBuffer THEN "Provide a magnet link or .torrent file"
  ELSE IF magnet # <<>> /\ ~startsWith(magnet, MAGNET_PREFIX) THEN "Invalid magnet link format"
  ELSE IF ~FolderKnown(folderKey) THEN "Invalid folder key"
  ELSE ""

\* res.status(400).json({ error }): `Invalid folder key: ${folderKey}`
RejectTorrent(error, folderKey) ==
  [Reject("torrent", 400, error) EXCEPT
     !.detail = IF error = "Invalid folder key" THEN folderKey ELSE <<>>]

\* A handler that registers the job before it looks at the folder key.
PostTorrentRegisterFirst(magnet, torrentBuffer, folderKey) ==
  /\ nextId <= MaxJobs
  /\ LET error == TorrentAdmission(magnet, torrentBuffer, folderKey)
         src == IF magnet # <<>> THEN magnet ELSE TORRENT_FILE
     IN /\ IF error # "" /\ error # "Invalid folder key"
           THEN UNCHANGED <<jobs, eng, nextId>>
           ELSE /\ jobs' = jobs @@ (nextId :> NewTorrentJob(nextId, src, folderKey, now))
                /\ eng' = eng @@ (nextId :> NewEngine("torrent", DestinationFolder(folderKey)))
                /\ nextId' = nextId + 1
        /\ reply' = IF error # "" THEN RejectTorrent(error, folderKey)
                    ELSE Reply("torrent", nextId, 200, "queued")
  /\ UNCHANGED <<swarm, wtClient, files, unlinks, timers, accepted, now, env, hits, nextToken>>

PostTorrent(magnet, torrentBuffer, folderKey) ==
  /\ nextId <= MaxJobs
  /\ LET error == TorrentAdmission(magnet, torrentBuffer, folderKey)
         src == IF magnet # <<>> THEN magnet ELSE TORRENT_FILE
     IN /\ IF error # ""
           THEN UNCHANGED <<jobs, eng, nextId>>
           ELSE /\ jobs' = jobs @@ (nextId :> NewTorrentJob(nextId, src, folderKey, now))
                /\ eng' = eng @@ (nextId :> NewEngine("torrent", DestinationFolder(folderKey)))
                /\ nextId' = nextId + 1
        /\ reply' = IF error # "" THEN RejectTorrent(error, folderKey)
                    ELSE Reply("torrent", nextId, 200, "queued")
  /\ UNCHANGED <<swarm, wtClient, files, unlinks, timers, accepted, now, env, hits, nextToken>>

\* A getWTClient that constructs a client at every call.
getWTClientFresh == wtClient + 1

\* getWTClient(): _wtClient after a call that returns; the first call
\* constructs the client.
getWTClient == IF wtClient = 0 THEN 1 ELSE wtClient

\* A getWTClient that stores the client before it is fully built.
ClientAfterFailureHalfBuilt == wtClient + 1

\* _wtClient after a call of getWTClient that throws: require() or the
\* constructor threw before the assignment.
ClientAfterFailure == wtClient

\* A start that runs for any job still registered.
StartSkippedIfMissing(j) == j \notin DOMAIN jobs

\* if (!j || j.status === 'cancelled')
StartSkipped(j) == j \notin DOMAIN jobs \/ jobs[j].status = "cancelled"

\* setImmediate callback of POST /api/torrent.  Only the first call of
\* getWTClient() runs require() and the constructor, so only it may throw.
TorrentStart(j) ==
  /\ j \in DOMAIN eng
  /\ eng[j].kind = "torrent"
  /\ eng[j].pc = "immediate"
  /\ reply' = NoReply
  /\ UNCHANGED <<files, unlinks, accepted, nextId, now,
               env, sessions, hits, nextToken, request>>
  /\ IF StartSkipped(j)
     THEN /\ timers' = IF j \in DOMAIN jobs THEN timers \cup {j} ELSE timers
          /\ eng' = [eng EXCEPT ![j] = Finished(@)]
          /\ UNCHANGED <<jobs, swarm, wtClient>>
     ELSE \/ /\ wtClient' = getWTClient
             /\ jobs' = [jobs EXCEPT ![j] = [Started(@) EXCEPT !.torrentRef = TRUE]]
             /\ swarm' = swarm @@ (j :> [NewTorrent EXCEPT !.client = getWTClient])
             /\ eng' = [eng EXCEPT ![j].pc = "active", ![j].interval = TRUE]
             /\ UNCHANGED timers
          \/ /\ wtClient = 0
             /\ wtClient' = ClientAfterFailure
             /\ jobs' = [jobs EXCEPT ![j] =
                           [Started(@) EXCEPT
                              !.status = "error",
                              !.message = "Failed to initialize torrent client"]]
             /\ eng' = [eng EXCEPT ![j] = Finished(@)]
             /\ UNCHANGED <<swarm, timers>>

\* The ontorrent callback of client.add: metadata became available.  A
\* destroyed torrent never becomes ready.
TorrentMetadata(j) ==
  /\ j \in DOMAIN swarm
  /\ ~swarm[j].destroyed
  /\ ~swarm[j].ready
  /\ \E name \in Filenames :
       /\ swarm' = [swarm EXCEPT ![j].ready = TRUE, ![j].name = name,
                                 ![j].length = TorrentLength]
       /\ jobs' = IF j \in DOMAIN jobs
                  THEN [jobs EXCEPT ![j].filename = name,
                                    ![j].totalBytes = IF TorrentLength # 0 THEN TorrentLength ELSE Undef,
                                    ![j].updatedAt = now]
                  ELSE jobs
  /\ reply' = NoReply
  /\ UNCHANGED <<eng, wtClient, files, unlinks, timers, accepted, nextId, now,
               env, sessions, hits, nextToken, request>>

\* The swarm delivers a piece: WebTorrent stores it under path/name.
SwarmProgress(j) ==
  /\ j \in DOMAIN swarm
  /\ ~swarm[j].destroyed
  /\ swarm[j].ready
  /\ swarm[j].downloaded < swarm[j].length
  /\ swarm' = [swarm EXCEPT ![j].downloaded = @ + 1, ![j].numPeers = 1,
                            ![j].downloadSpeed = 1]
  /\ files' = [files EXCEPT ![JoinPath(eng[j].fullPath, swarm[j].name)] =
                  [by |-> j, complete |-> swarm[j].downloaded + 1 = swarm[j].length]]
  /\ reply' = NoReply
  /\ UNCHANGED <<jobs, eng, wtClient, unlinks, timers, accepted, nextId, now,
               env, sessions, hits, nextToken, request>>

\* A sampler that only stops once the job is evicted.
SamplerStopsIfMissing(j) == j \notin DOMAIN jobs

\* if (!jj || jj.status !== 'downloading') { clearInterval(progressInterval); return; }
SamplerStops(j) == j \notin DOMAIN jobs \/ jobs[j].status # "downloading"

\* One tick of progressInterval (every 500 ms).
SamplerTick(j) ==
  /\ j \in DOMAIN eng
  /\ eng[j].interval
  /\ IF SamplerStops(j)
     THEN /\ eng' = [eng EXCEPT ![j].interval = FALSE]
          /\ UNCHANGED jobs
     ELSE /\ jobs' = [jobs EXCEPT
                 ![j].downloadedBytes = swarm[j].downloaded,
                 ![j].totalBytes = IF swarm[j].length # 0 THEN swarm[j].length ELSE @,
                 ![j].filename = IF swarm[j].name # <<>> /\ @ = <<>> THEN swarm[j].name ELSE @,
                 ![j].peers = swarm[j].numPeers,
                 ![j].downloadSpeed = swarm[j].downloadSpeed,
                 ![j].updatedAt = now]
          /\ UNCHANGED eng
  /\ reply' = NoReply
  /\ UNCHANGED <<swarm, wtClient, files, unlinks, timers, accepted, nextId, now,
               env, sessions, hits, nextToken, request>>

\* A destroy() that leaves the torrent in the swarm.
destroyNothing(torrent) == torrent

\* torrent.destroy(), as called by the 'done' handler and by DELETE.
destroy(torrent) == [torrent EXCEPT !.destroyed = TRUE]

\* A 'done' handler that leaves the last sampled peer count and rate.
CompletedKeepingStats(job, torrent) ==
  [job EXCEPT !.status = "done",
              !.downloadedBytes = torrent.length,
              !.totalBytes = torrent.length,
              !.filename = torrent.name,
              !.message = "Downloaded",
              !.torrentRef = FALSE,
              !.updatedAt = now]

\* The assignments of the 'done' handler to the record.
Completed(job, torrent) ==
  [job EXCEPT !.status = "done",
              !.downloadedBytes = torrent.length,
              !.totalBytes = torrent.length,
              !.filename = torrent.name,
              !.peers = Undef,
              !.downloadSpeed = Undef,
              !.message = "Downloaded",
              !.torrentRef = FALSE,
              !.updatedAt = now]

\* torrent.on('done'): every piece is verified.  A destroyed torrent emits
\* nothing.
TorrentDone(j) ==
  /\ j \in DOMAIN swarm
  /\ ~swarm[j].destroyed
  /\ swarm[j].ready
  /\ ~swarm[j].done
  /\ swarm[j].downloaded = swarm[j].length
  /\ eng' = [eng EXCEPT ![j] = Finished(@)]
  /\ IF j \notin DOMAIN jobs
     THEN /\ swarm' = [swarm EXCEPT ![j].done = TRUE]
          /\ UNCHANGED <<jobs, timers>>
     ELSE /\ jobs' = [jobs EXCEPT ![j] = Completed(@, swarm[j])]
          /\ swarm' = [swarm EXCEPT ![j] = destroy([@ EXCEPT !.done = TRUE])]
          /\ timers' = timers \cup {j}
  /\ reply' = NoReply
  /\ UNCHANGED <<wtClient, files, unlinks, accepted, nextId, now,
               env, sessions, hits, nextToken, request>>

\* torrent.on('error'): WebTorrent destroys a torrent that hits a fatal error
\* and emits 'error' while doing so.
TorrentError(j) ==
  /\ j \in DOMAIN swarm
  /\ ~swarm[j].destroyed
  /\ swarm' = [swarm EXCEPT ![j].destroyed = TRUE]
  /\ eng' = [eng EXCEPT ![j] = Finished(@)]
  /\ IF j \notin DOMAIN jobs
     THEN UNCHANGED <<jobs, timers>>
     ELSE /\ jobs' = [jobs EXCEPT ![j].status = "error",
                                  ![j].message = "swarm error",
                                  ![j].torrentRef = FALSE,
                                  ![j].updatedAt = now]
          /\ timers' = timers \cup {j}
  /\ reply' = NoReply
  /\ UNCHANGED <<wtClient, files, unlinks, accepted, nextId, now,
               env, sessions, hits, nextToken, request>>

\* ------------------------------------------------- DELETE /api/jobs/:jobId

\* A guard that only refuses finished transfers.
CancellableUnlessFinished(status) == status \notin {"done", "error"}

\* job.status !== 'queued' && job.status !== 'downloading' answers 400
Cancellable(status) == status \in {"queued", "downloading"}

\* A cancel that never reaches the torrent branch.
HasSwarmHandleNever(job) == FALSE

\* job.type === 'torrent' && job.torrentRef
HasSwarmHandle(job) == job.type = "torrent" /\ job.torrentRef

DeleteJob(id) ==
  /\ UNCHANGED <<wtClient, files, unlinks, nextId, now, env, hits, nextToken>>
  /\ IF id \notin DOMAIN jobs
     THEN /\ reply' = NotFound("cancel", id)
          /\ UNCHANGED <<jobs, eng, swarm, timers, accepted>>
     ELSE IF ~Cancellable(jobs[id].status)
     THEN /\ reply' = Reply("cancel", id, 400, "none")
          /\ UNCHANGED <<jobs, eng, swarm, timers, accepted>>
     ELSE /\ jobs' = [jobs EXCEPT ![id].status = "cancelled",
                                  ![id].message = "Download cancelled",
                                  ![id].updatedAt = now,
                                  ![id].torrentRef = IF HasSwarmHandle(jobs[id]) THEN FALSE ELSE @]
          /\ eng' = [eng EXCEPT ![id].aborted = IF jobs[id].abortController THEN TRUE ELSE @]
          /\ swarm' = IF HasSwarmHandle(jobs[id])
                      THEN [swarm EXCEPT ![id] = destroy(@)]
                      ELSE swarm
          /\ timers' = IF HasSwarmHandle(jobs[id]) THEN timers \cup {id} ELSE timers
          /\ accepted' = accepted \cup {id}
          /\ reply' = Reply("cancel", id, 200, "cancelled")

\* ------------------------------------------------------ eviction timer

\* A sweep that deletes a job whether or not a timer was armed for it.
EvictAnyJob(j) ==
  /\ j \in DOMAIN jobs
  /\ timers' = timers \ {j}
  /\ jobs' = [k \in DOMAIN jobs \ {j} |-> jobs[k]]
  /\ accepted' = accepted \ {j}
  /\ reply' = NoReply
  /\ UNCHANGED <<eng, swarm, wtClient, files, unlinks, nextId, now,
               env, sessions, hits, nextToken, request>>

\* setTimeout(() => { jobs.delete(jobId); }, 24h) fires.
Evict(j) ==
  /\ j \in timers
  /\ timers' = timers \ {j}
  /\ jobs' = [k \in DOMAIN jobs \ {j} |-> jobs[k]]
  /\ accepted' = accepted \ {j}
  /\ reply' = NoReply
  /\ UNCHANGED <<eng, swarm, wtClient, files, unlinks, nextId, now,
               env, sessions, hits, nextToken, request>>

\* ------------------------------------------------------- GET /api/jobs

\* Array.from(jobs.values()): a Map iterates in insertion order, and ids are
\* handed out in increasing order here.
RECURSIVE IdSeq(_)
IdSeq(S) ==
  IF S = {} THEN <<>>
  ELSE LET m == CHOOSE x \in S : \A y \in S : x <= y
       IN <<m>> \o IdSeq(S \ {m})

\* The comparator with its operands swapped: oldest first.
CompareAscending(a, b) == a.createdAt - b.createdAt

\* (a, b) => new Date(b.createdAt).getTime() - new Date(a.createdAt).getTime()
Compare(a, b) == b.createdAt - a.createdAt

\* Array.prototype.sort is stable: x goes before the first element that the
\* comparator orders after it.
InsertSorted(js, s, x) ==
  LET later == {i \in 1..Len(s) : Compare(js[s[i]], js[x]) > 0}
      k == IF later = {} THEN Len(s) + 1
           ELSE CHOOSE i \in later : \A i2 \in later : i <= i2
  IN SubSeq(s, 1, k - 1) \o <<x>> \o SubSeq(s, k, Len(s))

RECURSIVE SortJobs(_, _)
SortJobs(js, s) ==
  IF s = <<>> THEN <<>>
  ELSE InsertSorted(js, SortJobs(js, SubSeq(s, 1, Len(s) - 1)), s[Len(s)])

GetJobs ==
  /\ reply' = [op |-> "jobs", id |-> 0, code |-> 200, status |-> "none",
               body |-> SortJobs(jobs, IdSeq(DOMAIN jobs)), error |-> "", detail |-> <<>>]
  /\ UNCHANGED <<jobs, eng, swarm, wtClient, files, unlinks, timers, accepted, nextId, now, env, hits, nextToken>>

\* ------------------------------------------------- GET /api/status/:jobId

GetStatus(id) ==
  /\ reply' = IF id \in DOMAIN jobs
              THEN Reply("status", id, 200, jobs[id].status)
              ELSE NotFound("status", id)
  /\ UNCHANGED <<jobs, eng, swarm, wtClient, files, unlinks, timers, accepted, nextId, now, env, hits, nextToken>>

\* ---------------------------------------------------------------- clock

Tick ==
  /\ now < MaxClock
  /\ now' = now + 1
  /\ reply' = NoReply
  /\ UNCHANGED <<jobs, eng, swarm, wtClient, files, unlinks, timers, accepted, nextId,
               env, sessions, hits, nextToken, request>>

\* Time passes: the clock reaches one of the instants at which a session or
\* a window of the login limiter begins or ends.
SessionInstants == {SESSION_TTL_MS, SESSION_TTL_MS + 1}
WindowInstants == {1, AUTH_WINDOW_MS - 1, AUTH_WINDOW_MS, AUTH_WINDOW_MS + 1}

Elapse(t) ==
  /\ t > now
  /\ now' = t
  /\ reply' = NoReply
  /\ UNCHANGED <<jobs, eng, swarm, wtClient, files, unlinks, timers, accepted, nextId,
                 env, sessions, hits, nextToken, request>>

\* -------------------------------------------------------- specification

Next ==
  \/ \E u \in Urls, k \in RequestKeys, f \in Filenames :
       Authed("download", NoHeader, PostDownload(u, k, f))
  \/ \E k \in RequestKeys, f \in Filenames :
       Authed("upload", NoHeader, PostUpload(File(f), k, <<>>))
  \/ \E s \in TorrentSources, k \in RequestKeys :
       Authed("torrent", NoHeader, PostTorrent(s, FALSE, k))
  \/ \E j \in Ids : HttpStart(j)
  \/ \E j \in Ids : HttpFetchDone(j)
  \/ \E j \in Ids : HttpReadDone(j)
  \/ \E j \in Ids : HttpBufferDone(j)
  \/ \E j \in Ids : HttpWriteDone(j)
  \/ \E j \in Ids : UnlinkDone(j)
  \/ \E j \in Ids : TorrentStart(j)
  \/ \E j \in Ids : TorrentMetadata(j)
  \/ \E j \in Ids : SwarmProgress(j)
  \/ \E j \in Ids : SamplerTick(j)
  \/ \E j \in Ids : TorrentDone(j)
  \/ \E j \in Ids : TorrentError(j)
  \/ \E j \in Ids : Authed("cancel", NoHeader, DeleteJob(j))
  \/ \E j \in Ids : Evict(j)

\* The clock feeds createdAt and updatedAt only, and no handler or engine
\* reads them back (GET /api/jobs apart): Spec runs within one millisecond,
\* SpecClock lets the clock advance between any two steps.
Spec == Init /\ [][Next]_vars

NextClock == Next \/ Tick

SpecClock == Init /\ [][NextClock]_vars

\* The registry as the read endpoints see it: admissions of every kind,
\* evictions and the clock, with GET /api/jobs and GET /api/status/:jobId.
NextList ==
  \/ \E u \in Urls, k \in RequestKeys, f \in Filenames :
       Authed("download", NoHeader, PostDownload(u, k, f))
  \/ \E k \in RequestKeys, f \in Filenames :
       Authed("upload", NoHeader, PostUpload(File(f), k, <<>>))
  \/ \E s \in TorrentSources, k \in RequestKeys :
       Authed("torrent", NoHeader, PostTorrent(s, FALSE, k))
  \/ \E j \in Ids : Evict(j)
  \/ \E j \in Ids : Authed("status", NoHeader, GetStatus(j))
  \/ Authed("jobs", NoHeader, GetJobs)
  \/ Tick

SpecList == Init /\ [][NextList]_vars

\* The HTTP engine alone, scheduled fairly: a setImmediate callback that is
\* queued runs, and a pending fetch, read or write settles.
NextHttp ==
  \/ \E u \in Urls, k \in RequestKeys, f \in Filenames :
       Authed("download", NoHeader, PostDownload(u, k, f))
  \/ \E j \in Ids : HttpStart(j)
  \/ \E j \in Ids : HttpFetchDone(j)
  \/ \E j \in Ids : HttpReadDone(j)
  \/ \E j \in Ids : HttpBufferDone(j)
  \/ \E j \in Ids : HttpWriteDone(j)
  \/ \E j \in Ids : UnlinkDone(j)
  \/ \E j \in Ids : Authed("cancel", NoHeader, DeleteJob(j))
  \/ \E j \in Ids : Evict(j)

HttpFairness ==
  \A j \in Ids :
    /\ WF_vars(HttpStart(j))
    /\ WF_vars(HttpFetchDone(j))
    /\ WF_vars(HttpReadDone(j))
    /\ WF_vars(HttpBufferDone(j))
    /\ WF_vars(HttpWriteDone(j))

SpecHttpFair == Init /\ [][NextHttp]_vars /\ HttpFairness

\* https://e.co
SITE == <<"h", "t", "t", "p", "s", ":", "/", "/", "e", ".", "c", "o">>

\* ---------------------------------------------------------------- login
\* A process with or without APP_PASSWORD, a client that logs in, and
\* requests to every endpoint that carry one Authorization header: none, or
\* a token in the Bearer scheme or in another one, issued or not, fresh or
\* expired as time passes.

PASSWORD == <<"p", "w">>
AuthEnvs == {[DefaultEnv EXCEPT !.password = p] : p \in {<<>>, PASSWORD}}
Headers ==
  {NoHeader}
    \cup {[NoHeader EXCEPT !.scheme = "Bearer", !.token = t] : t \in 1..(MaxSessions + 1)}
    \cup {[NoHeader EXCEPT !.scheme = sch, !.token = 1] : sch \in {"bearer", "Basic"}}

InitAuth == \E e \in AuthEnvs, h \in Headers : InitRequest(e, h)

NextAuth ==
  \/ isAuthEnabled /\ PostAuth("c1", Str(PASSWORD))
  \/ Authed("config", request, GetConfig)
  \/ Authed("download", request, PostDownload(SITE \o <<"/", "x">>, FILES, <<>>))
  \/ Authed("upload", request, PostUpload(File(<<"a">>), FILES, <<>>))
  \/ Authed("torrent", request, PostTorrent(MAGNET_PREFIX \o <<"x">>, FALSE, FILES))
  \/ Authed("jobs", request, GetJobs)
  \/ \E j \in Ids : Authed("status", request, GetStatus(j))
  \/ \E j \in Ids : Authed("cancel", request, DeleteJob(j))
  \/ \E t \in SessionInstants : Elapse(t)

SpecAuth == InitAuth /\ [][NextAuth]_vars

\* Two clients that log in, with the right password and with a wrong one.
Clients == {"c1", "c2"}
InitLogin == InitEnv([DefaultEnv EXCEPT !.password = PASSWORD])

NextLogin ==
  \/ \E c \in Clients, p \in {PASSWORD, <<>>} : PostAuth(c, Str(p))
  \/ \E t \in WindowInstants : Elapse(t)

SpecLogin == InitLogin /\ [][NextLogin]_vars

\* ---------------------------------------------------------- origin guard
\* One request per process, its URL drawn from OriginUrls: IPv4 literals on
\* both sides of every boundary of the ranges, hosts in other notations,
\* names, and URLs of other schemes or of no scheme.

OriginFirst == {0, 9, 10, 11, 126, 127, 128, 168, 169, 170, 171, 172, 173, 191, 192, 193, 255}
OriginSecond == {0, 15, 16, 17, 31, 32, 167, 168, 169, 253, 254, 255}
Quad(a, b) == NumberToString(a) \o <<".">> \o NumberToString(b) \o <<".", "0", ".", "1">>
OriginHosts ==
  {Quad(a, b) : a \in OriginFirst, b \in OriginSecond}
    \cup {<<"l", "o", "c", "a", "l", "h", "o", "s", "t">>,
          <<"L", "O", "C", "A", "L", "H", "O", "S", "T">>,
          <<"l", "o", "c", "a", "l", "h", "o", "s", "t", ".">>,
          <<"l", "o", "c", "a", "l", "h", "o", "s", "t", ".", "e", ".", "c", "o">>,
          <<"e", ".", "c", "o">>,
          <<"E", ".", "C", "o">>,
          <<"1", "0", ".", "e", ".", "c", "o">>,
          <<"[", ":", ":", "1", "]">>,
          <<"[", ":", ":", "f", "f", "f", "f", ":", "1", "2", "7", ".", "0", ".", "0", ".", "1", "]">>,
          <<"1", "2", "7", ".", "1">>,
          <<"2", "1", "3", "0", "7", "0", "6", "4", "3", "3">>,
          <<"0", "x", "7", "f", ".", "0", ".", "0", ".", "1">>,
          <<"0", "1", "7", "7", ".", "0", ".", "0", ".", "1">>,
          <<"0", "1", "2", ".", "0", ".", "0", ".", "1">>,
          <<"1", "0", ".", "9", "9", "9", ".", "1", ".", "1">>,
          <<"1", ".", "2", ".", "3", ".", "4", ".", "5">>,
          <<"1", "9", "2", ".", "1", "6", "8", ".", "1", ".", "1", ".">>,
          <<"0", ".", "0", ".", "0", ".", "0">>,
          <<"1", "7", "2", ".", "1", "6">>,
          <<"1", "9", "2", ".", "1", "1", "0", "1", "0", "0", "4", "9">>,
          <<"a", "_", "b">>,
          <<"1", ".", ".", "2">>}
OriginUrls ==
  {sch \o <<":", "/", "/">> \o h \o <<"/", "x">> :
     sch \in {URL_SCHEME_HTTP, URL_SCHEME_HTTPS}, h \in OriginHosts}
    \cup {<<"n", "o", "u", "r", "l">>,
          <<"f", "t", "p", ":", "/", "/", "e", ".", "c", "o", "/", "x">>,
          <<"f", "t", "p", ":", "/", "/", "1", "0", ".", "0", ".", "0", ".", "1", "/", "x">>,
          <<"H", "T", "T", "P", ":", "/", "/", "e", ".", "c", "o", "/", "x">>,
          <<"H", "t", "T", "p", "S", ":", "/", "/", "1", "2", "7", ".", "0", ".", "0", ".", "1", "/", "x">>,
          <<"h", "t", "t", "p", ":", "1", "0", ".", "0", ".", "0", ".", "1", "/", "x">>,
          <<"h", "t", "t", "p", ":", "\\", "\\", "1", "9", "2", ".", "1", "6", "8", ".", "0", ".", "1", "/", "x">>,
          <<"x", ":", "y">>,
          <<"f", "i", "l", "e", ":", "/", "/", "/", "x">>,
          <<":", "/", "/", "e", ".", "c", "o">>,
          <<"h", "t", "t", "p", ":", "/", "/">>,
          <<"h", "t", "t", "p", ":", "/", "/", "/", "e", ".", "c", "o">>,
          <<"1", "h", "t", "t", "p", ":", "/", "/", "e", ".", "c", "o", "/", "x">>,
          <<"h", "t", "t", "p", ":", "/", "/", "e", " ", "c", "o", "/", "x">>,
          <<"h", "t", "t", "p", "s", ":", "/", "/", "e", ".", "c", "o">>,
          <<"h", "t", "t", "p", "s", ":", "/", "/", "e", ".", "c", "o", "/", "a", "/", ".", ".", "/", "x">>}

InitOrigin == \E u \in OriginUrls : InitRequest(DefaultEnv, [NoHeader EXCEPT !.url = u])

NextOrigin == Authed("download", request, PostDownload(request.url, FILES, <<>>))

SpecOrigin == InitOrigin /\ [][NextOrigin]_vars

\* ------------------------------------------------------ extension check
\* One process per value of ALLOWED_EXTENSIONS and per filename; the
\* filename is sent as the override of a download and as the original name
\* of an upload.

ExtChars == {"a", "A", "."}
ExtNames == UNION {[1..n -> ExtChars] : n \in 0..(MaxNameLen + 2)}
ExtEnvs ==
  {[DefaultEnv EXCEPT !.allowedExtensions = x] :
     x \in {<<>>, <<".", "a">>,
            <<" ", ".", "A", " ", ",", " ", "a", "a">>,
            <<".", "a", ".", "a", ",", ".", "a", "a">>}}

InitExt ==
  \E e \in ExtEnvs, f \in ExtNames : InitRequest(e, [NoHeader EXCEPT !.filename = f])

NextExt ==
  \/ Authed("download", request, PostDownload(SITE, FILES, request.filename))
  \/ Authed("upload", request, PostUpload(File(request.filename), FILES, <<>>))

SpecExt == InitExt /\ [][NextExt]_vars

\* ------------------------------------------------- admission, any request
\* Requests a client may send: filenames are all strings of at most
\* MaxNameLen characters of NameChars, and a few longer ones.

NameChars == {".", "/", "a"}
ShortNames == UNION {[1..n -> NameChars] : n \in 0..MaxNameLen}
ETC_PASSWD == <<".", ".", "/", ".", ".", "/", "e", "t", "c", "/", "p", "a", "s", "s", "w", "d">>
LongNames == {ETC_PASSWD, <<"a", ".", "a">>, <<"A", ".", "A">>, <<".", "a", "a">>,
              <<".", "/", ".", "a">>, <<".", "\\", ".">>, <<"a", " ", "a">>}
Names == ShortNames \cup LongNames
UploadNames == {<<>>, <<"a", ".", "a">>, <<".", "/", ".">>}

AdmitKeys == {FILES, NOKEY, <<>>}
AdmitUrls ==
  {SITE \o <<"/">> \o n : n \in Names}
    \cup {<<>>, <<"n", "o", "u", "r", "l">>, SITE,
          <<"f", "t", "p", ":", "/", "/", "e", ".", "c", "o", "/", "f", ".", "a">>,
          <<"h", "t", "t", "p", ":", "/", "/", "1", "2", "7", ".", "0", ".", "0", ".", "1", "/", "x">>,
          <<"h", "t", "t", "p", ":", "/", "/", "l", "o", "c", "a", "l", "h", "o", "s", "t", "/", "x">>}
AdmitMagnets == {<<>>, MAGNET_PREFIX \o <<"x">>, <<"x">>}

\* Values of ALLOWED_EXTENSIONS: unset, and " .A,,aa".
AdmitExtensions == {<<>>, <<" ", ".", "A", ",", ",", "a", "a">>}
AdmitEnvs == {[DefaultEnv EXCEPT !.allowedExtensions = x] : x \in AdmitExtensions}

InitAdmit == \E e \in AdmitEnvs : InitEnv(e)

NextAdmit ==
  \/ \E u \in AdmitUrls :
       Authed("download", NoHeader, PostDownload(u, FILES, <<>>))
  \/ \E k \in AdmitKeys :
       Authed("download", NoHeader, PostDownload(SITE, k, <<"a", ".", "a">>))
  \/ \E f \in Names :
       Authed("download", NoHeader, PostDownload(SITE, FILES, f))
  \/ \E n \in UploadNames, k \in AdmitKeys :
       Authed("upload", NoHeader, PostUpload(File(n), k, <<>>))
  \/ \E f \in UploadNames :
       Authed("upload", NoHeader, PostUpload(File(<<"a">>), FILES, f))
  \/ Authed("upload", NoHeader, PostUpload(NoFile, FILES, <<>>))
  \/ \E m \in AdmitMagnets, b \in BOOLEAN, k \in AdmitKeys :
       Authed("torrent", NoHeader, PostTorrent(m, b, k))

SpecAdmit == InitAdmit /\ [][NextAdmit]_vars

\* ------------------------------------------------------------- passwords
\* One process per value of APP_PASSWORD and per `password` of the body: a
\* client that sends the same login request again and again.

Passwords ==
  {Undefined, Num, Str(<<>>), Str(PASSWORD), Str(<<"p", "x">>), Str(<<"P", "W">>),
   Str(<<"p">>), Str(<<"p", "w", "x">>), Str(<<"p", E_ACUTE>>), Str(<<E_ACUTE>>),
   Arr(<<112, 119>>), Arr(<<368, 375>>), Arr(<<1, 2>>)}
PasswordEnvs == {[DefaultEnv EXCEPT !.password = p] : p \in {<<>>, PASSWORD, <<"p", E_ACUTE>>}}

InitPassword ==
  \E e \in PasswordEnvs, p \in Passwords : InitRequest(e, [NoHeader EXCEPT !.password = p])

NextPassword == PostAuth("c1", request.password)

SpecPassword == InitPassword /\ [][NextPassword]_vars

\* -------------------------------------------------------- folder registry
\* One process per value of DOWNLOAD_FOLDERS; a client asks for the
\* configuration and sends torrents with one folder key.

KEY_F == <<"f">>
KEY_G == <<"g">>
FolderStrings ==
  {<<>>,
   <<" ">>,
   <<";">>,
   <<"f">>,
   <<"f", ":">>,
   <<":", "/", "d">>,
   <<" ", ":", " ">>,
   <<"f", ":", "/", "d">>,
   <<"f", ":", "/", "d", ";">>,
   <<"f", ":", "/", "d", ";", "g", ":", "/", "e">>,
   <<";", ";", "g", ":", "/", "e">>,
   <<"f", ";", "g", ":", "/", "e">>,
   <<"g", ":", "/", "e", ";", "f", ":", "/", "d">>,
   <<"f", ":", "c", ":", "/", "d">>,
   <<"f", ":", ":">>,
   <<"f", ":", "/", "d", ":", "g", ":", "/", "e">>,
   <<" ", "f", " ", ":", " ", "/", "d", " ">>,
   <<"f", ":", "/", "d", ";", "\t", "g", "\t", ":", "\n", "/", "e", "\n">>,
   <<"f", " ", "g", ":", "/", "d", " ", "e">>,
   <<"f", ":", "/", "d", ";", "f", ":", "/", "e">>,
   <<"f", ":", "/", "d", ";", "f", ":">>,
   <<"f", ":", "/", "d", ";", "g", ":", "/", "d">>}
FolderRequestKeys == {<<>>, KEY_F, KEY_G, <<" ", "f">>, <<"f", ":", "c">>, <<"f", " ", "g">>}

InitFolders ==
  \E d \in FolderStrings, k \in FolderRequestKeys :
    InitRequest([DefaultEnv EXCEPT !.downloadFolders = d], [NoHeader EXCEPT !.folderKey = k])

NextFolders ==
  \/ Authed("config", request, GetConfig)
  \/ Authed("torrent", request, PostTorrent(MAGNET_PREFIX \o <<"x">>, FALSE, request.folderKey))

SpecFolders == InitFolders /\ [][NextFolders]_vars

\* ------------------------------------------------------------ swarm client
\* buildApp() called once more in the same process, as each test suite does
\* once the jobs of the instance before have ended: the new instance has its
\* own registry, sessions and limiter, while _wtClient, the torrents of the
\* client, the disk and the clock belong to the process.
BuildApp ==
  /\ jobs # <<>>
  /\ \A j \in DOMAIN eng : eng[j].pc = "finished" /\ ~eng[j].interval
  /\ unlinks = {}
  /\ jobs' = <<>>
  /\ timers' = {}
  /\ accepted' = {}
  /\ sessions' = <<>>
  /\ hits' = <<>>
  /\ reply' = NoReply
  /\ UNCHANGED <<eng, swarm, wtClient, files, unlinks, nextId, now, env, nextToken, request>>

\* Torrent jobs alone, in one app instance after another.
NextSwarm ==
  \/ \E s \in TorrentSources, k \in RequestKeys :
       Authed("torrent", NoHeader, PostTorrent(s, FALSE, k))
  \/ \E j \in Ids : TorrentStart(j)
  \/ \E j \in Ids : TorrentMetadata(j)
  \/ \E j \in Ids : SwarmProgress(j)
  \/ \E j \in Ids : SamplerTick(j)
  \/ \E j \in Ids : TorrentDone(j)
  \/ \E j \in Ids : TorrentError(j)
  \/ \E j \in Ids : Authed("cancel", NoHeader, DeleteJob(j))
  \/ BuildApp

SpecSwarm == Init /\ [][NextSwarm]_vars

\* ------------------------------------------------- torrents and extensions
\* One process per value of ALLOWED_EXTENSIONS and per torrent request; the
\* file the swarm delivers is named a.t or b.t.

TorrentExtEnvs ==
  {[DefaultEnv EXCEPT !.allowedExtensions = x] :
     x \in {<<>>, <<".", "a">>, <<".", "t">>, <<".", "a", ",", ".", "t">>}}
TorrentRequests ==
  {[NoHeader EXCEPT !.url = m, !.file = b, !.folderKey = k] :
     m \in AdmitMagnets \cup {MAGNET_PREFIX \o <<"x", ".", "a">>}, b \in BOOLEAN, k \in AdmitKeys}

InitTorrentExt == \E e \in TorrentExtEnvs, r \in TorrentRequests : InitRequest(e, r)

NextTorrentExt ==
  \/ Authed("torrent", request, PostTorrent(request.url, request.file, request.folderKey))
  \/ \E j \in Ids : TorrentStart(j)
  \/ \E j \in Ids : TorrentMetadata(j)
  \/ \E j \in Ids : SwarmProgress(j)
  \/ \E j \in Ids : SamplerTick(j)
  \/ \E j \in Ids : TorrentDone(j)
  \/ \E j \in Ids : TorrentError(j)

SpecTorrentExt == InitTorrentExt /\ [][NextTorrentExt]_vars

\* ------------------------------------------------------ progress throttle
\* Downloads whose responses announce no length, a length whose hundredth
\* is below THROTTLE_BYTES, or one whose hundredth is above it, and whose
\* bodies arrive in chunks that reach the threshold exactly, stay one byte
\* short of it, or are a single byte.  One download is submitted.
ThrottleChunks == 3
OnePercentAbove == 100 * THROTTLE_BYTES + 100
ThrottleTotals == {Undef, 2 * THROTTLE_BYTES, OnePercentAbove}
ThrottleSizes == {1, THROTTLE_BYTES - 1, THROTTLE_BYTES}

NextThrottle ==
  \/ \E u \in Urls, f \in Filenames :
       /\ jobs = <<>>
       /\ Authed("download", NoHeader, PostDownload(u, FILES, f))
  \/ \E j \in Ids : HttpStart(j)
  \/ \E j \in Ids : HttpFetch(j, ThrottleTotals)
  \/ \E j \in Ids : HttpRead(j, ThrottleSizes, ThrottleChunks)
  \/ \E j \in Ids : HttpBufferDone(j)
  \/ \E j \in Ids : HttpWriteDone(j)
  \/ \E j \in Ids : UnlinkDone(j)
  \/ \E j \in Ids : Authed("cancel", NoHeader, DeleteJob(j))

SpecThrottle == Init /\ [][NextThrottle]_vars

\* ---------------------------------------------------------------- lookups
\* Every operation of Spec, with GET /api/status/:jobId on any id: ids not
\* yet given to a job, ids of registered jobs, ids of evicted jobs.
NextLookup ==
  \/ Next
  \/ \E j \in Ids : Authed("status", NoHeader, GetStatus(j))

SpecLookup == Init /\ [][NextLookup]_vars

\* ---------------------------------------------------------- order of checks
\* One process per value of ALLOWED_EXTENSIONS and per download request; the
\* requests combine every url, folder key and filename override below, so
\* that a request may fail several checks at once.
OrderUrls ==
  {<<>>, <<"n", "o", "u", "r", "l">>, SITE,
   SITE \o <<"/", "a">>, SITE \o <<"/", "a", ".", "a">>, SITE \o <<"/", "a", ".", "b">>,
   <<"f", "t", "p", ":", "/", "/", "e", ".", "c", "o", "/", "f", ".", "a">>,
   <<"h", "t", "t", "p", ":", "/", "/", "1", "2", "7", ".", "0", ".", "0", ".", "1", "/", "x">>}
OrderNames ==
  {<<>>, <<".", ".">>, <<".">>, <<"a">>, <<"a", ".", "a">>, <<"a", ".", "b">>,
   <<".", ".", "/", "a">>, <<".", "/", ".">>}
OrderRequests ==
  {[NoHeader EXCEPT !.url = u, !.folderKey = k, !.filename = f] :
     u \in OrderUrls, k \in AdmitKeys, f \in OrderNames}

InitOrder == \E e \in AdmitEnvs, r \in OrderRequests : InitRequest(e, r)

NextOrder ==
  Authed("download", request, PostDownload(request.url, request.folderKey, request.filename))

SpecOrder == InitOrder /\ [][NextOrder]_vars

\* ---------------------------------------------------------------- sessions
\* A process with or without APP_PASSWORD, logins with the right password,
\* and a client that sends one Authorization header to protected endpoints
\* as time passes: a token that is or will be issued, one that never is, or
\* the token 'no-auth' that POST /api/auth hands out when auth is disabled.
NO_AUTH == MaxSessions + 2
SessionHeaders ==
  {[NoHeader EXCEPT !.scheme = "Bearer", !.token = t] :
     t \in (1..(MaxSessions + 1)) \cup {NO_AUTH}}

InitSession == \E e \in AuthEnvs, h \in SessionHeaders : InitRequest(e, h)

NextSession ==
  \/ PostAuth("c1", Str(PASSWORD))
  \/ Authed("config", request, GetConfig)
  \/ Authed("jobs", request, GetJobs)
  \/ Authed("torrent", request, PostTorrent(MAGNET_PREFIX \o <<"x">>, FALSE, FILES))
  \/ \E t \in SessionInstants \cup {1, SESSION_TTL_MS + 2} : Elapse(t)

SpecSession == InitSession /\ [][NextSession]_vars

\* ------------------------------------------------------------ sanitized names
\* One process per request; the name under test is sent as the filename
\* override (with a plain URL and a plain upload), or as the last segment of
\* the URL and the original name of the uploaded file (with no override).
\* Names are every string of at most MaxNameLen characters of NameChars, the
\* longer ones above, names with characters outside the safe set, and names
\* at and beyond the length limit of sanitizeFilename.
Repeat(c, n) == [i \in 1..n |-> c]
OverlongNames ==
  {Repeat("a", MAX_FILENAME), Repeat("a", MAX_FILENAME + 1),
   <<".", ".", "/">> \o Repeat("a", MAX_FILENAME + 1),
   Repeat(" ", MAX_FILENAME + 2) \o <<".", "a">>,
   Repeat(".", 7) \o Repeat("a", MAX_FILENAME) \o Repeat(".", 6)}
UnsafeNames == {<<"a", "%", "~">>, <<"*">>, <<"\\">>, <<"/", "/">>, <<"_", "-", "0", "Z">>}
SanitizeNames == Names \cup OverlongNames \cup UnsafeNames
SanitizeRequests ==
  {[NoHeader EXCEPT !.url = SITE \o <<"/", "a">>, !.filename = f, !.file = File(<<"a">>)] :
     f \in SanitizeNames}
    \cup {[NoHeader EXCEPT !.url = SITE \o <<"/">> \o n, !.file = File(n)] : n \in SanitizeNames}

InitSanitize == \E r \in SanitizeRequests : InitRequest(DefaultEnv, r)

NextSanitize ==
  \/ Authed("download", request, PostDownload(request.url, FILES, request.filename))
  \/ Authed("upload", request, PostUpload(request.file, FILES, request.filename))
  \/ Authed("torrent", request, PostTorrent(<<>>, TRUE, FILES))

SpecSanitize == InitSanitize /\ [][NextSanitize]_vars

\* ================================================================ claims

\* The engine of job j has returned: uploads have none, an HTTP engine has
\* settled, a torrent engine has no callback left to run.
EngineReturned(j) ==
  \/ j \notin DOMAIN eng
  \/ eng[j].pc = "finished"
  \/ eng[j].pc = "active" /\ swarm[j].destroyed /\ ~eng[j].interval

\* The engine of job j has unwound: it returned and its unlink completed.
Unwound(j) == EngineReturned(j) /\ j \notin unlinks

\* The step just taken answered DELETE /api/jobs/j.
CancelStep(j) == reply'.op = "cancel" /\ reply'.id = j

\* C1: once a job's status is done, error or cancelled, no step changes it.
C1_TerminalAbsorbing ==
  [][\A j \in DOMAIN jobs :
       (jobs[j].status \in Terminal /\ j \in DOMAIN jobs')
         => jobs'[j].status = jobs[j].status]_vars

\* C2: a cancel request on a done, error or cancelled job answers 400 and
\* changes neither the job record nor anything else of the registry.
C2_CancelTerminalConflict ==
  [][\A j \in Ids :
       (CancelStep(j) /\ j \in DOMAIN jobs /\ jobs[j].status \in Terminal)
         => /\ reply'.code = 400
            /\ jobs' = jobs
            /\ UNCHANGED <<eng, swarm, timers, files, unlinks, accepted>>]_vars

\* C2 witness: a second cancel of a cancelled job was refused, at a later
\* clock reading than the job's updatedAt.
C2_Witness ==
  \E j \in DOMAIN jobs :
    /\ reply = Reply("cancel", j, 400, "none")
    /\ jobs[j].status = "cancelled"
    /\ j \in accepted
    /\ now > jobs[j].updatedAt

\* C3: a cancel request on a queued or downloading job answers 200 with
\* status cancelled, and once the engine has unwound the job is cancelled
\* and holds no cancellation handle.
C3_CancelSettlesCancelled ==
  /\ (reply.op = "cancel" /\ reply.code = 200) => reply.status = "cancelled"
  /\ \A j \in accepted :
       Unwound(j) => (jobs[j].status = "cancelled" /\ ~jobs[j].abortController)

\* C4 as claimed: a job holds an abortController iff its status is queued
\* or downloading.
C4_HandleIffActive ==
  \A j \in DOMAIN jobs :
    jobs[j].abortController <=> jobs[j].status \in {"queued", "downloading"}

\* C4 amended: a job holds an abortController iff it is an HTTP job whose
\* engine has not returned yet; so every queued or downloading HTTP job
\* holds one, and upload and torrent jobs never do.
C4_HandleIffHttpEngineLive ==
  \A j \in DOMAIN jobs :
    /\ jobs[j].abortController <=> (Kind(jobs[j]) = "http" /\ ~EngineReturned(j))
    /\ (Kind(jobs[j]) = "http" /\ jobs[j].status \in {"queued", "downloading"})
         => jobs[j].abortController

\* C4 witness: a cancelled HTTP job still holding its (aborted) controller
\* while the engine unwinds, next to a queued torrent job that holds none.
C4_Witness ==
  \E j, t \in DOMAIN jobs :
    /\ Kind(jobs[j]) = "http"
    /\ jobs[j].status = "cancelled"
    /\ jobs[j].abortController
    /\ eng[j].aborted
    /\ Kind(jobs[t]) = "torrent"
    /\ jobs[t].status = "queued"
    /\ ~jobs[t].abortController

\* C5: every terminal job whose engine has returned has its eviction timer
\* armed (and is evicted when it fires).
C5_TerminalHasTimer ==
  \A j \in DOMAIN jobs :
    (jobs[j].status \in Terminal /\ EngineReturned(j)) => j \in timers

\* C6: no step changes status, counters, peer statistics, filename or
\* message of a job that is terminal.
C6_NoLateWrites ==
  [][\A j \in DOMAIN jobs :
       (jobs[j].status \in Terminal /\ j \in DOMAIN jobs')
         => /\ jobs'[j].status = jobs[j].status
            /\ jobs'[j].downloadedBytes = jobs[j].downloadedBytes
            /\ jobs'[j].totalBytes = jobs[j].totalBytes
            /\ jobs'[j].peers = jobs[j].peers
            /\ jobs'[j].downloadSpeed = jobs[j].downloadSpeed
            /\ jobs'[j].filename = jobs[j].filename
            /\ jobs'[j].message = jobs[j].message]_vars

\* C7: once the engine of an HTTP job whose cancel was accepted has unwound,
\* destPath holds no file written by that job.
C7_NoFileAfterCancel ==
  \A j \in accepted :
    (Kind(jobs[j]) = "http" /\ Unwound(j)) => files[jobs[j].destPath].by # j

\* C8: an accepted cancel of a torrent job destroys the attached torrent
\* and clears torrentRef in the same step, touches no file and schedules
\* no unlink; no torrent job ever has an unlink in flight.
C8_TorrentCancelKeepsData ==
  [][/\ \A j \in Ids :
          (CancelStep(j) /\ reply'.code = 200 /\ jobs[j].type = "torrent")
            => /\ jobs'[j].status = "cancelled"
               /\ jobs[j].torrentRef => (swarm'[j].destroyed /\ ~jobs'[j].torrentRef)
               /\ files' = files
               /\ unlinks' = unlinks
     /\ \A j \in unlinks' : eng'[j].kind = "http"]_vars

\* C8 witness: a downloading torrent with data on disk was cancelled; the
\* torrent is destroyed and the data is still there.
C8_Witness ==
  \E j \in DOMAIN swarm :
    /\ reply = Reply("cancel", j, 200, "cancelled")
    /\ swarm[j].destroyed
    /\ swarm[j].downloaded > 0
    /\ files[JoinPath(FolderDir, swarm[j].name)].by = j

\* C9: an HTTP job whose signal was aborted never ends with status error:
\* downloadFile does not return an error, and a cancelled outcome is
\* recorded as status cancelled.
C9_AbortedNeverError ==
  \A j \in DOMAIN jobs :
    (j \in DOMAIN eng /\ eng[j].kind = "http" /\ eng[j].aborted /\ eng[j].pc = "finished")
      => /\ jobs[j].status # "error"
         /\ eng[j].outcome # "error"
         /\ eng[j].outcome = "cancelled" => jobs[j].status = "cancelled"

\* C9 witness: the write failed after the abort, leaving a truncated file,
\* and the job ended cancelled.
C9_Witness ==
  \E j \in DOMAIN jobs :
    /\ j \in DOMAIN eng
    /\ eng[j].aborted
    /\ eng[j].pc = "finished"
    /\ jobs[j].status = "cancelled"
    /\ files[eng[j].fullPath] = [by |-> j, complete |-> FALSE]

\* The body of a GET /api/jobs reply lists every job of the registry once.
ListsRegistry(body) ==
  /\ Len(body) = Cardinality(DOMAIN jobs)
  /\ {body[p] : p \in 1..Len(body)} = DOMAIN jobs

\* C10 as claimed: GET /api/jobs returns exactly the registry, and a job
\* created later (a larger id) comes before every job created earlier.
C10_ListNewestFirst ==
  reply.op = "jobs" =>
    /\ ListsRegistry(reply.body)
    /\ \A p, q \in 1..Len(reply.body) : p < q => reply.body[p] > reply.body[q]

\* C10 amended: GET /api/jobs returns exactly the registry ordered by
\* createdAt descending; jobs with the same createdAt (created within one
\* millisecond) keep their insertion order, oldest first.
C10_ListByCreatedAtDesc ==
  reply.op = "jobs" =>
    /\ ListsRegistry(reply.body)
    /\ \A p, q \in 1..Len(reply.body) :
         p < q => \/ jobs[reply.body[p]].createdAt > jobs[reply.body[q]].createdAt
                  \/ /\ jobs[reply.body[p]].createdAt = jobs[reply.body[q]].createdAt
                     /\ reply.body[p] < reply.body[q]

\* C10 witness: a listing of two jobs created at different clock readings,
\* the later one first.
C10_Witness ==
  /\ reply.op = "jobs"
  /\ Len(reply.body) = 2
  /\ reply.body[1] > reply.body[2]
  /\ jobs[reply.body[1]].createdAt > jobs[reply.body[2]].createdAt

\* The step just taken answered an admission request with a rejection.
RejectedStep == reply'.op \in {"download", "upload", "torrent"} /\ reply'.code = 400

\* C11: a request rejected at admission, whatever the reason, leaves the
\* registry exactly as it was, starts no engine and no torrent, arms no timer
\* and writes no file.
C11_RejectedCreatesNothing ==
  [][RejectedStep
       => /\ jobs' = jobs
          /\ eng' = eng
          /\ swarm' = swarm
          /\ wtClient' = wtClient
          /\ timers' = timers
          /\ files' = files
          /\ nextId' = nextId]_vars

\* A torrent request naming an unknown folder was rejected while a job was
\* registered.
C11_Witness ==
  /\ reply.op = "torrent"
  /\ reply.code = 400
  /\ reply.error = "Invalid folder key"
  /\ DOMAIN jobs # {}

\* The request of job j was answered 200 by this step.
AdmittedStep(op, j) == reply'.op = op /\ reply'.code = 200 /\ reply'.id = j

\* downloadFile returned an error for job j: the fetch failed, the answer was
\* not 2xx, a read failed or the write failed.
EngineFailed(j) == j \in DOMAIN eng /\ eng[j].outcome = "error"

\* C12: an admitted HTTP job is registered queued and the caller receives
\* queued; the step that makes an HTTP job done leaves the complete body,
\* written by that job, at its destination path; and under fair scheduling a
\* queued HTTP job whose download does not fail and on which no cancel is
\* accepted eventually is done.
C12_AdmittedHttpCompletes ==
  /\ [][\A j \in Ids :
          AdmittedStep("download", j)
            => /\ reply'.status = "queued"
               /\ j \notin DOMAIN jobs
               /\ j \in DOMAIN jobs'
               /\ jobs'[j].status = "queued"
               /\ Kind(jobs'[j]) = "http"]_vars
  /\ [][\A j \in DOMAIN jobs \cap DOMAIN jobs' :
          (Kind(jobs[j]) = "http" /\ jobs[j].status # "done" /\ jobs'[j].status = "done")
            => files'[jobs'[j].destPath] = [by |-> j, complete |-> TRUE]]_vars
  /\ \A j \in Ids :
       (j \in DOMAIN jobs /\ jobs[j].status = "queued")
         ~> \/ j \in DOMAIN jobs /\ jobs[j].status = "done"
            \/ EngineFailed(j)
            \/ j \in accepted

\* An HTTP job on which no cancel was accepted is done and its file is whole.
C12_Witness ==
  \E j \in DOMAIN jobs :
    /\ Kind(jobs[j]) = "http"
    /\ jobs[j].status = "done"
    /\ j \notin accepted
    /\ eng[j].outcome = "success"
    /\ files[jobs[j].destPath] = [by |-> j, complete |-> TRUE]

\* C13: the step that answers an upload with 200 registers a job that is
\* already done, with no engine, and has written the whole file at its
\* destination path; the step that answers 500 for a failed write registers
\* nothing; and an upload job never has a status other than done.
C13_UploadSynchronous ==
  [][/\ \A j \in Ids :
          AdmittedStep("upload", j)
            => /\ reply'.status = "done"
               /\ j \notin DOMAIN jobs
               /\ j \in DOMAIN jobs'
               /\ Kind(jobs'[j]) = "upload"
               /\ files'[jobs'[j].destPath] = [by |-> j, complete |-> TRUE]
               /\ eng' = eng
     /\ (reply'.op = "upload" /\ reply'.code = 500)
          => jobs' = jobs /\ eng' = eng /\ timers' = timers /\ nextId' = nextId
     /\ \A j \in DOMAIN jobs' :
          Kind(jobs'[j]) = "upload" => jobs'[j].status = "done" /\ j \notin DOMAIN eng']_vars

\* An upload was answered 200 and its job is in the registry.
C13_Witness ==
  /\ reply.op = "upload"
  /\ reply.code = 200
  /\ reply.id \in DOMAIN jobs
  /\ jobs[reply.id].status = "done"
  /\ files[jobs[reply.id].destPath] = [by |-> reply.id, complete |-> TRUE]

\* The private, loopback and link-local ranges: the first two octets of the
\* base address and the length of the prefix.
PrivateRanges == {<<10, 0, 8>>, <<172, 16, 12>>, <<192, 168, 16>>, <<127, 0, 8>>, <<169, 254, 16>>}

\* The octets of a dotted quad a.b.c.d with octets 0..255, <<>> for any
\* other hostname.
Octets(hostname) ==
  IF /\ Len(split(hostname, ".")) = 4
     /\ \A i \in 1..4 : /\ AllDigits(split(hostname, ".")[i])
                        /\ Len(split(hostname, ".")[i]) <= 3
                        /\ DecimalValue(split(hostname, ".")[i]) <= 255
  THEN [i \in 1..4 |-> DecimalValue(split(hostname, ".")[i])]
  ELSE <<>>

\* The address with octets o lies in range r: the first r[3] bits agree.
InRange(o, r) ==
  (o[1] * 256 + o[2]) \div Pow(2, 16 - r[3]) = (r[1] * 256 + r[2]) \div Pow(2, 16 - r[3])

\* What the origin guard is to answer for a parsed URL: "" to allow it.
OriginVerdict(parsedUrl) ==
  IF ~parsedUrl.ok THEN "Invalid URL format"
  ELSE IF parsedUrl.protocol \notin {URL_SCHEME_HTTP \o <<":">>, URL_SCHEME_HTTPS \o <<":">>}
  THEN "Only HTTP and HTTPS protocols are allowed"
  ELSE IF \/ parsedUrl.hostname = LOCALHOST
          \/ /\ Octets(parsedUrl.hostname) # <<>>
             /\ \E r \in PrivateRanges : InRange(Octets(parsedUrl.hostname), r)
  THEN "Internal/private IP addresses are not allowed"
  ELSE ""

\* C14: a download request is rejected by the origin guard exactly when its
\* URL does not parse, its scheme is neither http nor https, or its hostname
\* is localhost or a dotted quad in 10.0.0.0/8, 172.16.0.0/12,
\* 192.168.0.0/16, 127.0.0.0/8 or 169.254.0.0/16; every other URL is
\* admitted.
C14_OriginGuard ==
  reply.op = "download"
    => /\ reply.error = OriginVerdict(ParseURL(request.url))
       /\ reply.error = "" => /\ reply.code = 200
                              /\ jobs[reply.id].url = request.url

\* A URL whose host is the last address of 172.16.0.0/12 was rejected.
C14_Witness ==
  /\ reply.op = "download"
  /\ reply.error = "Internal/private IP addresses are not allowed"
  /\ ParseURL(request.url).hostname = <<"1", "7", "2", ".", "3", "1", ".", "0", ".", "1">>

\* A name that is safe to join to a folder: no two dots in a row, no
\* separator.
SafeName(name) ==
  /\ ~Contains(name, <<".", ".">>)
  /\ \A i \in 1..Len(name) : ~IsSeparator(name[i])

\* C15: the filename of every HTTP or upload job, which is the result of
\* sanitizeFilename on the name the request gave, contains no ".." and no
\* "/" or "\".
C15_SanitizedHasNoDotDot ==
  \A j \in DOMAIN jobs :
    Kind(jobs[j]) \in {"http", "upload"} => SafeName(jobs[j].filename)

\* The directories and the name a path goes through.
Segments(p) == NormalizeSegments(<<>>, split(p, "/"))

\* Path p names something below the folder, not the folder itself.
StrictDescendant(folder, p) ==
  /\ Len(Segments(p)) > Len(Segments(folder))
  /\ SubSeq(Segments(p), 1, Len(Segments(folder))) = Segments(folder)

\* C16: the destination path of every HTTP or upload job is a strict
\* descendant of the destination folder, and so is every path an engine is
\* to write and every path at which a file was written.
C16_DestinationInsideFolder ==
  /\ \A j \in DOMAIN jobs :
       Kind(jobs[j]) \in {"http", "upload"} => StrictDescendant(FolderDir, jobs[j].destPath)
  /\ \A j \in DOMAIN eng :
       eng[j].kind = "http" => StrictDescendant(FolderDir, eng[j].fullPath)
  /\ \A p \in DOMAIN files :
       files[p] # Absent => StrictDescendant(FolderDir, p)

\* A name that resolves to the folder or above it was rejected, and a name
\* that starts with two dots was admitted.
C16_Witness ==
  /\ reply.code = 400
  /\ reply.error = "Path traversal detected"
  /\ \E j \in DOMAIN jobs : jobs[j].filename = <<".", ".", "a">>

NO_EXTENSION == "File has no extension. An extension is required."
NOT_ALLOWED == "File extension is not allowed"

\* The filename the handler that answered has checked.
CheckedName ==
  IF reply.op = "download" THEN DownloadFilename(<<"/">>, request.filename)
  ELSE UploadFilename(File(request.filename), <<>>)

\* What the extension check made of the request: its error, "" when the
\* filename passed it.
ExtensionOutcome == IF reply.error \in {NO_EXTENSION, NOT_ALLOWED} THEN reply.error ELSE ""

\* name ends with entry, letters compared without their case.
EndsWith(name, entry) ==
  /\ Len(entry) <= Len(name)
  /\ toLowerCase(SubSeq(name, Len(name) - Len(entry) + 1, Len(name))) = toLowerCase(entry)

\* The extension of name, from its last dot to its end, is entry.
HasExtension(name, entry) ==
  \E k \in 1..Len(name) :
    /\ name[k] = "."
    /\ \A i \in (k + 1)..Len(name) : name[i] # "."
    /\ toLowerCase(SubSeq(name, k, Len(name))) = toLowerCase(entry)

\* The outcome of an allow-list check on a name that does or does not match
\* one of the entries.
AllowListOutcome(name, entries, matches) ==
  IF Len(entries) = 0 THEN ""
  ELSE IF \A i \in 1..Len(name) : name[i] # "." THEN NO_EXTENSION
  ELSE IF matches THEN ""
  ELSE NOT_ALLOWED

\* The entries of the allow-list as configured.
Entries == AllowedExtensions(env.allowedExtensions)

\* C17 as claimed: with no entry configured every filename passes; otherwise
\* a filename without extension is rejected as such, and a filename with one
\* passes if and only if it ends with one of the entries.
C17_SuffixMatch ==
  (reply.op \in {"download", "upload"} /\ reply.code # 500)
    => ExtensionOutcome
         = AllowListOutcome(CheckedName, Entries,
                            \E i \in 1..Len(Entries) : EndsWith(CheckedName, Entries[i]))

\* C17 as amended: with no entry configured every filename passes; otherwise
\* a filename without a dot is rejected as having no extension, and a
\* filename with one passes if and only if its extension, from the last dot
\* to the end, equals one of the entries, letters compared without their
\* case.
C17_ExtensionMatch ==
  (reply.op \in {"download", "upload"} /\ reply.code # 500)
    => ExtensionOutcome
         = AllowListOutcome(CheckedName, Entries,
                            \E i \in 1..Len(Entries) : HasExtension(CheckedName, Entries[i]))

\* An upload whose extension is written in upper case was admitted under an
\* allow-list written in lower case.
C17_Witness ==
  /\ env.allowedExtensions = <<".", "a">>
  /\ reply.op = "upload"
  /\ reply.code = 200
  /\ jobs[reply.id].filename = <<"a", ".", "A">>

\* Jobs j and k are two HTTP jobs with one destination path.
SamePath(j, k) ==
  /\ j # k
  /\ j \in DOMAIN jobs /\ k \in DOMAIN jobs
  /\ Kind(jobs[j]) = "http" /\ Kind(jobs[k]) = "http"
  /\ jobs[j].destPath = jobs[k].destPath

ProtectedOps == {"config", "download", "upload", "torrent", "jobs", "status", "cancel"}

\* The header carries, in the Bearer scheme, the token of a session that has
\* been issued and has not expired.
ValidBearer(header) ==
  /\ header.scheme = "Bearer"
  /\ header.token \in DOMAIN sessions
  /\ now <= sessions[header.token]

\* C19: with APP_PASSWORD set, a request to an endpoint other than POST
\* /api/auth is answered 401 exactly when it carries no Bearer token of a
\* currently valid session, and then the answer holds nothing of the registry
\* and jobs, engines, torrents, files and timers are as they were; with
\* APP_PASSWORD unset no request is answered 401.
C19_AuthGuardsEveryEndpoint ==
  [][reply'.op \in ProtectedOps
       => /\ isAuthEnabled => (reply'.code = 401 <=> ~ValidBearer(request'))
          /\ ~isAuthEnabled => reply'.code # 401
          /\ reply'.code = 401
               => /\ reply'.error = "Unauthorized"
                  /\ reply'.body = <<>> /\ reply'.status = "none" /\ reply'.id = 0
                  /\ jobs' = jobs /\ eng' = eng /\ swarm' = swarm /\ wtClient' = wtClient
                  /\ files' = files /\ timers' = timers /\ unlinks' = unlinks
                  /\ accepted' = accepted /\ nextId' = nextId]_vars

\* A request with the token of a session that has expired was answered 401
\* while jobs were registered.
C19_Witness ==
  /\ reply.op \in ProtectedOps
  /\ reply.code = 401
  /\ request.scheme = "Bearer"
  /\ request.token < nextToken
  /\ now > SESSION_TTL_MS
  /\ DOMAIN jobs # {}

\* The record of client c in the store of the limiter did not change.
SameHits(c) ==
  \/ c \notin DOMAIN hits /\ c \notin DOMAIN hits'
  \/ c \in DOMAIN hits /\ c \in DOMAIN hits' /\ hits'[c] = hits[c]

\* The window of c that is open now: none before the first request of c,
\* and none once 15 minutes have passed since the request that opened it.
WindowOpen(c) == c \in DOMAIN hits /\ now < hits[c].resetTime

\* C20: every POST /api/auth is counted for its client, in the window that
\* is open or else in a new window of 15 minutes that it opens; it is
\* answered 429 'Too many login attempts' exactly when it is the 11th or a
\* later request of that window, and then no session is created and no token
\* is returned; requests of other clients are not counted with it.
C20_LoginRateLimit ==
  [][reply'.op = "auth"
       => \E c \in Clients :
            /\ \A d \in Clients \ {c} : SameHits(d)
            /\ c \in DOMAIN hits'
            /\ hits'[c].count = IF WindowOpen(c) THEN hits[c].count + 1 ELSE 1
            /\ hits'[c].resetTime = IF WindowOpen(c) THEN hits[c].resetTime
                                    ELSE now + AUTH_WINDOW_MS
            /\ reply'.code = 429 <=> hits'[c].count > AUTH_MAX
            /\ reply'.code = 429
                 => /\ reply'.error = "Too many login attempts, please try again later"
                    /\ reply'.id = 0
                    /\ sessions' = sessions
                    /\ nextToken' = nextToken
            /\ reply'.code # 429 => reply'.code \in {200, 401}]_vars

\* The 11th request of a client in one window was answered 429, after a
\* login of that window had succeeded and while another client had sent less.
C20_Witness ==
  /\ reply.op = "auth"
  /\ reply.code = 429
  /\ "c1" \in DOMAIN hits /\ hits["c1"].count = AUTH_MAX + 1
  /\ "c2" \in DOMAIN hits /\ hits["c2"].count < AUTH_MAX
  /\ nextToken > 1

\* C21: a POST /api/auth that the limiter lets through, with auth enabled,
\* issues a new session token if and only if the password of the body equals
\* APP_PASSWORD, and is otherwise answered 401 'Invalid password' with the
\* session table left as it was; with auth disabled it answers the token
\* 'no-auth' whatever the body and creates no session.
C21_PasswordDecidesLogin ==
  [][(reply'.op = "auth" /\ reply'.code # 429)
       => IF isAuthEnabled
          THEN IF request.password = Str(env.password)
               THEN /\ reply'.code = 200
                    /\ reply'.status = "token"
                    /\ reply'.id \in DOMAIN sessions' \ DOMAIN sessions
               ELSE /\ reply'.code = 401
                    /\ reply'.error = "Invalid password"
                    /\ sessions' = sessions
          ELSE /\ reply'.code = 200
               /\ reply'.status = "no-auth"
               /\ sessions' = sessions]_vars

\* The entries of a configuration string, and what one entry says: its key
\* is what precedes the first ':' and its path all that follows it, both
\* without the white space around them.
FolderEntries == split(env.downloadFolders, ";")
HasColon(e) == \E i \in 1..Len(e) : e[i] = ":"
FirstColon(e) == CHOOSE i \in 1..Len(e) : e[i] = ":" /\ \A k \in 1..(i - 1) : e[k] # ":"
EntryKey(e) == trim(SubSeq(e, 1, FirstColon(e) - 1))
EntryPath(e) == trim(SubSeq(e, FirstColon(e) + 1, Len(e)))
WellFormed(e) == HasColon(e) /\ EntryKey(e) # <<>> /\ EntryPath(e) # <<>>

\* The positions of the well-formed entries of key k, and the path the
\* last of them gives.
EntriesOf(k) == {i \in 1..Len(FolderEntries) : WellFormed(FolderEntries[i]) /\ EntryKey(FolderEntries[i]) = k}
PathOf(k) == EntryPath(FolderEntries[CHOOSE i \in EntriesOf(k) : \A i2 \in EntriesOf(k) : i2 <= i])

\* C22: the keys the configuration endpoint lists are the keys of the
\* well-formed entries of DOWNLOAD_FOLDERS (entries cut at their first ':',
\* key and path trimmed, entries without ':' or with an empty key or path
\* skipped, none for an empty string); a request is refused for its folder
\* key exactly when no well-formed entry has that key, and a job admitted
\* under a key goes to the path of that key's entry.
C22_FolderMapping ==
  [][/\ (reply'.op = "config" /\ reply'.code = 200)
          => /\ {reply'.body[i] : i \in 1..Len(reply'.body)}
                  = {EntryKey(e) : e \in {x \in {FolderEntries[i] : i \in 1..Len(FolderEntries)} :
                                            WellFormed(x)}}
             /\ env.downloadFolders = <<>> => reply'.body = <<>>
             /\ \A i, i2 \in 1..Len(reply'.body) : i # i2 => reply'.body[i] # reply'.body[i2]
     /\ reply'.op = "torrent"
          => /\ reply'.code \in {200, 400}
             /\ reply'.code = 400 <=> EntriesOf(request.folderKey) = {}
             /\ (reply'.code = 400 /\ request.folderKey # <<>>)
                  => /\ reply'.error = "Invalid folder key"
                     /\ reply'.detail = request.folderKey
             /\ reply'.code = 200
                  => /\ jobs'[reply'.id].folderKey = request.folderKey
                     /\ jobs'[reply'.id].destPath = PathOf(request.folderKey)]_vars

\* A torrent was admitted under the key of an entry whose path holds a ':',
\* in a configuration with white space around the key and path.
C22_Witness ==
  /\ reply.op = "torrent"
  /\ reply.code = 200
  /\ env.downloadFolders = <<"f", ":", "c", ":", "/", "d">>
  /\ jobs[reply.id].destPath = <<"c", ":", "/", "d">>

\* Torrent job j starts executing in this step: its deferred start takes it
\* from queued to downloading and adds its torrent to the client.
TorrentStarts(j) ==
  /\ j \in DOMAIN jobs /\ j \in DOMAIN jobs'
  /\ jobs[j].type = "torrent"
  /\ jobs[j].status = "queued"
  /\ jobs'[j].status = "downloading"
  /\ j \notin DOMAIN swarm
  /\ j \in DOMAIN swarm'

\* C23: at most one swarm client is ever constructed, and _wtClient, once
\* set, is never set again; it is constructed in a step in which a torrent
\* job starts executing, never by an admission nor by the start of a job
\* cancelled while queued; every torrent is added to that one client.
C23_SingleSwarmClient ==
  [][/\ wtClient' \in {0, 1}
     /\ wtClient # 0 => wtClient' = wtClient
     /\ wtClient' # wtClient => \E j \in Ids : TorrentStarts(j)
     /\ \A j \in Ids : TorrentStarts(j) => wtClient' = 1
     /\ reply'.op = "torrent" => wtClient' = wtClient
     /\ \A j \in DOMAIN swarm' : swarm'[j].client = 1 /\ wtClient' = 1]_vars

\* The torrent of a job of a second app instance runs on the client that
\* the first job of the first instance constructed, a job cancelled while
\* queued having constructed none.
C23_Witness ==
  /\ wtClient = 1
  /\ {1, 2} \subseteq DOMAIN swarm
  /\ swarm[1].client = 1 /\ swarm[2].client = 1
  /\ ~swarm[2].destroyed
  /\ DOMAIN jobs = {2}
  /\ jobs[2].status = "downloading"

\* What a torrent request is refused for, whatever the allow-list: a missing
\* folder key, neither magnet nor file, a magnet that is not a magnet link,
\* a folder key that is not configured.
TorrentRefused(r) ==
  \/ r.folderKey = <<>>
  \/ r.url = <<>> /\ ~r.file
  \/ r.url # <<>> /\ (Len(r.url) < 7 \/ SubSeq(r.url, 1, 7) # <<"m", "a", "g", "n", "e", "t", ":">>)
  \/ r.folderKey # FILES

\* C24: a torrent request is admitted or refused by its own fields and the
\* folder configuration alone, identically under every ALLOWED_EXTENSIONS,
\* and never for an extension; the name the swarm gives the download is not
\* checked against the list either: no torrent job fails for its extension.
C24_TorrentIgnoresAllowList ==
  [][/\ reply'.op = "torrent"
          => /\ reply'.code = (IF TorrentRefused(request) THEN 400 ELSE 200)
             /\ reply'.error \notin {"File has no extension. An extension is required.",
                                     "File extension is not allowed"}
             /\ reply'.code = 200
                  => /\ reply'.id \in DOMAIN jobs' \ DOMAIN jobs
                     /\ jobs'[reply'.id].status = "queued"
             /\ reply'.code = 400 => jobs' = jobs
     /\ \A j \in DOMAIN jobs' :
          (j \in DOMAIN jobs /\ jobs[j].status # "error" /\ jobs'[j].status = "error")
            => jobs'[j].message \in {"swarm error", "Failed to initialize torrent client"}
     /\ \A j \in DOMAIN jobs' :
          (j \in DOMAIN jobs /\ jobs[j].filename # jobs'[j].filename)
            => /\ jobs'[j].filename = swarm[j].name \/ jobs'[j].filename = swarm'[j].name
               /\ jobs'[j].status = jobs[j].status \/ jobs'[j].status = "done"]_vars

\* A torrent admitted although only .a is allowed has delivered a.t and is
\* done.
C24_Witness ==
  /\ env.allowedExtensions = <<".", "a">>
  /\ 1 \in DOMAIN jobs
  /\ jobs[1].type = "torrent"
  /\ jobs[1].status = "done"
  /\ jobs[1].filename = <<"a", ".", "t">>

\* The edges of the state machine of an HTTP or torrent job.
StatusEdges ==
  {<<"queued", "downloading">>, <<"queued", "cancelled">>, <<"queued", "error">>,
   <<"downloading", "done">>, <<"downloading", "error">>, <<"downloading", "cancelled">>}

Retrieved(job) == Kind(job) \in {"http", "torrent"}

\* C25: an HTTP or torrent job enters the registry with status queued; a
\* step that changes the status of such a job that is queued or downloading
\* follows an edge of the state machine; and a job becomes done only once
\* its engine has started, the start of an engine being the step that sets
\* the status to downloading.
C25_StatusEdges ==
  [][\A j \in Ids :
       /\ (j \notin DOMAIN jobs /\ j \in DOMAIN jobs' /\ Retrieved(jobs'[j]))
            => jobs'[j].status = "queued"
       /\ (j \in DOMAIN jobs /\ j \in DOMAIN jobs' /\ Retrieved(jobs[j])
             /\ jobs[j].status \notin Terminal /\ jobs'[j].status # jobs[j].status)
            => <<jobs[j].status, jobs'[j].status>> \in StatusEdges
       /\ (j \in DOMAIN jobs' /\ Retrieved(jobs'[j]) /\ jobs'[j].status = "done")
            => /\ j \in DOMAIN jobs
               /\ jobs[j].status # "done" => eng[j].pc \notin {"immediate"}
       /\ (j \in DOMAIN eng /\ eng[j].pc = "immediate" /\ eng'[j].pc \notin {"immediate", "finished"})
            => jobs'[j].status = "downloading"]_vars

\* Both kinds of job have gone from queued through downloading to done.
C25_Witness ==
  /\ {1, 2} \subseteq DOMAIN jobs
  /\ Kind(jobs[1]) = "http" /\ jobs[1].status = "done"
  /\ Kind(jobs[2]) = "torrent" /\ jobs[2].status = "done"

\* ---------------------------------------------------------------- C26
\* A step of the read loop that took one more chunk of the body of job j.
ChunkRead(j) ==
  /\ j \in DOMAIN eng /\ j \in DOMAIN eng'
  /\ eng[j].kind = "http"
  /\ eng[j].pc = "read" /\ eng'[j].pc = "read"
  /\ eng'[j].nread = eng[j].nread + 1

\* The bytes received up to and including the chunk of this step, less the
\* count the record showed before it (0 at the start, then the last report).
Accumulated(j) == eng'[j].downloaded - jobs[j].downloadedBytes

\* The step wrote the count of the bytes received into the record.
ProgressEmitted(j) ==
  /\ j \in DOMAIN jobs'
  /\ jobs'[j].downloadedBytes = eng'[j].downloaded
  /\ jobs'[j] # jobs[j]

\* C26, as stated: with a known total T an update follows a chunk exactly
\* when the bytes accumulated since the last report exceed both T / 100 and
\* 512 KiB; with an unknown total an update follows every chunk.
C26_ThrottleAsStated ==
  [][\A j \in Ids :
       ChunkRead(j) =>
         (ProgressEmitted(j) <=>
            IF eng[j].total # Undef
            THEN Accumulated(j) * 100 > eng[j].total /\ Accumulated(j) > 524288
            ELSE TRUE)]_vars

\* C26, amended: an update follows a chunk exactly when the bytes
\* accumulated since the last report are at least max(T / 100, 512 KiB) for
\* a known total T, and at least 512 KiB when the total is unknown.
C26_Throttle ==
  [][\A j \in Ids :
       ChunkRead(j) =>
         (ProgressEmitted(j) <=>
            IF eng[j].total # Undef
            THEN Accumulated(j) * 100 >= eng[j].total /\ Accumulated(j) >= 524288
            ELSE Accumulated(j) >= 524288)]_vars

\* A download of OnePercentAbove bytes, still reading, whose record was
\* updated at 512 KiB + 1 bytes, two chunks in: the chunk that brought
\* 512 KiB was not reported, T / 100 being one byte more.
C26_Witness ==
  \E j \in DOMAIN jobs :
    /\ j \in DOMAIN eng
    /\ eng[j].pc = "read"
    /\ eng[j].total = OnePercentAbove
    /\ eng[j].nread = 2
    /\ eng[j].downloaded = 524288 + 1
    /\ jobs[j].downloadedBytes = 524288 + 1

\* ---------------------------------------------------------------- C27
\* The deferred start of the torrent engine of job j runs in this step.
TorrentStartRuns(j) ==
  /\ j \in DOMAIN eng /\ j \in DOMAIN eng'
  /\ eng[j].kind = "torrent"
  /\ eng[j].pc = "immediate" /\ eng'[j].pc # "immediate"

\* C27: the deferred start of a torrent job that was cancelled while queued
\* leaves the record as it is (status cancelled, never downloading), leaves
\* the swarm client as it is (none is created), adds no torrent, starts no
\* sampler and returns; it arms the eviction timer of the job and nothing
\* else.  The cancelled job keeps its status from then on.
C27_CancelledWhileQueued ==
  [][\A j \in Ids :
       /\ (TorrentStartRuns(j) /\ j \in DOMAIN jobs /\ jobs[j].status = "cancelled") =>
            /\ jobs' = jobs
            /\ wtClient' = wtClient
            /\ swarm' = swarm
            /\ j \notin DOMAIN swarm'
            /\ ~eng'[j].interval
            /\ eng'[j].pc = "finished"
            /\ timers' = timers \cup {j}
            /\ files' = files
       /\ (/\ j \in DOMAIN jobs /\ j \in DOMAIN jobs'
           /\ jobs[j].type = "torrent"
           /\ jobs[j].status = "cancelled"
           /\ jobs[j].downloadedBytes = Undef) =>
            jobs'[j] = jobs[j]]_vars

\* A torrent job cancelled while queued whose deferred start has run: never
\* started (no byte count), no torrent, no client, no sampler, timer armed.
C27_Witness ==
  \E j \in DOMAIN jobs :
    /\ jobs[j].type = "torrent"
    /\ jobs[j].status = "cancelled"
    /\ jobs[j].downloadedBytes = Undef
    /\ j \in accepted
    /\ eng[j].pc = "finished"
    /\ ~eng[j].interval
    /\ j \notin DOMAIN swarm
    /\ wtClient = 0
    /\ j \in timers

ClientInitFails(j) ==
  /\ TorrentStartRuns(j)
  /\ j \in DOMAIN jobs /\ j \in DOMAIN jobs'
  /\ jobs[j].status = "queued"
  /\ jobs'[j].status = "error"

\* C29: a start whose client initialisation fails leaves the job with
\* status error and a message, adds no torrent, attaches none to the job,
\* starts no sampler and ends the engine; there was no client before and
\* there is none after, so the next start constructs one again.  The job
\* stays in error for as long as it is registered.
C29_ClientInitFailure ==
  [][\A j \in Ids :
       /\ ClientInitFails(j) =>
            /\ jobs'[j].message # NoMsg
            /\ ~jobs'[j].torrentRef
            /\ swarm' = swarm
            /\ j \notin DOMAIN swarm'
            /\ ~eng'[j].interval
            /\ eng'[j].pc = "finished"
            /\ wtClient = 0
            /\ wtClient' = 0
            /\ getWTClient' = 1
       /\ (/\ j \in DOMAIN jobs /\ j \in DOMAIN jobs'
           /\ jobs[j].type = "torrent"
           /\ jobs[j].status = "error") =>
            jobs'[j].status = "error"]_vars

\* The first torrent job ended in error on a failed initialisation and has
\* no torrent; the second one initialised the client and is downloading.
C29_Witness ==
  /\ DOMAIN jobs = {1, 2}
  /\ jobs[1].type = "torrent"
  /\ jobs[1].status = "error"
  /\ jobs[1].message = "Failed to initialize torrent client"
  /\ 1 \notin DOMAIN swarm
  /\ jobs[2].status = "downloading"
  /\ 2 \in DOMAIN swarm
  /\ swarm[2].client = 1
  /\ wtClient = 1

\* ---------------------------------------------------------------- C30
\* The sampler of job j would find the job registered and downloading.
SamplerFindsDownloading(j) == j \in DOMAIN jobs /\ jobs[j].status = "downloading"

\* C30: a tick of the sampler changes the registry only if it finds its job
\* registered with status downloading, and the job is then still registered
\* and downloading; a tick that finds anything else clears the interval and
\* changes no record.  An interval that was cleared is never set again.  A
\* step that takes a torrent job to done or error leaves no sampler running,
\* and no torrent job in done or error has one.
C30_Sampler ==
  [][\A j \in Ids :
       /\ SamplerTick(j) =>
            /\ jobs' # jobs => SamplerFindsDownloading(j) /\ SamplerFindsDownloading(j)'
            /\ \A k \in DOMAIN jobs : k # j => (k \in DOMAIN jobs' /\ jobs'[k] = jobs[k])
            /\ DOMAIN jobs' = DOMAIN jobs
            /\ ~SamplerFindsDownloading(j) => (~eng'[j].interval /\ jobs' = jobs)
            /\ SamplerFindsDownloading(j) => eng'[j].interval
       /\ (j \in DOMAIN eng /\ eng[j].pc # "immediate" /\ ~eng[j].interval) =>
            ~eng'[j].interval
       /\ (/\ j \in DOMAIN jobs /\ j \in DOMAIN jobs'
           /\ jobs[j].type = "torrent"
           /\ jobs[j].status = "downloading"
           /\ jobs'[j].status \in {"done", "error"}) =>
            ~eng'[j].interval
       /\ (/\ j \in DOMAIN jobs'
           /\ jobs'[j].type = "torrent"
           /\ jobs'[j].status \in {"done", "error"}) =>
            ~eng'[j].interval]_vars

\* A torrent whose sampler updated the record while it was downloading, and
\* was then stopped by a tick that found the job cancelled: the handlers
\* have not run (the engine is still active) and the interval is cleared.
C30_Witness ==
  \E j \in DOMAIN jobs :
    /\ jobs[j].type = "torrent"
    /\ jobs[j].status = "cancelled"
    /\ jobs[j].peers # Undef
    /\ eng[j].pc = "active"
    /\ ~eng[j].interval

\* ---------------------------------------------------------------- C31
\* The torrent job j goes from downloading to done in this step.
TorrentCompletes(j) ==
  /\ j \in DOMAIN jobs /\ j \in DOMAIN jobs'
  /\ jobs[j].type = "torrent"
  /\ jobs[j].status # "done"
  /\ jobs'[j].status = "done"

\* C31: the step that takes a torrent job to done starts from downloading
\* and, in that one step, sets filename to the torrent's name and
\* downloadedBytes and totalBytes to the torrent's length, clears peers,
\* downloadSpeed and torrentRef, destroys the torrent and arms the eviction
\* timer; the sampler is stopped.
C31_SwarmCompletion ==
  [][\A j \in Ids :
       TorrentCompletes(j) =>
         /\ jobs[j].status = "downloading"
         /\ j \in DOMAIN swarm
         /\ jobs'[j].filename = swarm[j].name
         /\ jobs'[j].filename # <<>>
         /\ jobs'[j].downloadedBytes = swarm[j].length
         /\ jobs'[j].totalBytes = swarm[j].length
         /\ swarm[j].downloaded = swarm[j].length
         /\ jobs'[j].peers = Undef
         /\ jobs'[j].downloadSpeed = Undef
         /\ ~jobs'[j].torrentRef
         /\ ~swarm[j].destroyed
         /\ swarm'[j].destroyed
         /\ j \notin timers
         /\ j \in timers'
         /\ ~eng'[j].interval]_vars

\* A completed torrent job whose sampler had recorded a peer before the
\* completion: the count is cleared, the sizes agree, the torrent is
\* destroyed and the timer is armed.
C31_Witness ==
  \E j \in DOMAIN jobs :
    /\ jobs[j].type = "torrent"
    /\ jobs[j].status = "done"
    /\ j \in DOMAIN swarm
    /\ swarm[j].numPeers > 0
    /\ swarm[j].destroyed
    /\ jobs[j].peers = Undef
    /\ jobs[j].downloadedBytes = jobs[j].totalBytes
    /\ jobs[j].totalBytes = swarm[j].length
    /\ jobs[j].filename = swarm[j].name
    /\ j \in timers

\* ---------------------------------------------------------------- C32
\* The fetch of HTTP job j resolves in this step with a status outside
\* 200..299.
AnswersNon2xx(j) ==
  /\ j \in DOMAIN eng /\ j \in DOMAIN eng'
  /\ eng[j].kind = "http"
  /\ eng[j].pc = "fetch"
  /\ eng'[j].responseStatus # 0
  /\ (eng'[j].responseStatus < 200 \/ eng'[j].responseStatus > 299)

\* C32: when the remote answers an HTTP job that was not cancelled with a
\* status outside 200..299, that step leaves the job in error with a message
\* made of the status code and the reason phrase, writes no file, schedules
\* no unlink, clears abortController, arms the eviction timer and ends the
\* engine.  The job stays in error while registered and its engine has
\* written nothing at its destination.
C32_Non2xxResponse ==
  [][\A j \in Ids :
       /\ (AnswersNon2xx(j) /\ j \notin accepted) =>
            /\ j \in DOMAIN jobs'
            /\ jobs[j].status = "downloading"
            /\ jobs'[j].status = "error"
            /\ eng'[j].responseStatus = 404 => jobs'[j].message = "HTTP error: 404 Not Found"
            /\ eng'[j].responseStatus = 503 =>
                 jobs'[j].message = "HTTP error: 503 Service Unavailable"
            /\ eng'[j].responseStatus \in {404, 503}
            /\ files' = files
            /\ files[jobs[j].destPath].by # j
            /\ unlinks' = unlinks
            /\ jobs[j].abortController
            /\ ~jobs'[j].abortController
            /\ j \notin timers
            /\ j \in timers'
            /\ eng'[j].pc = "finished"
       /\ (/\ j \in DOMAIN jobs /\ j \in DOMAIN jobs'
           /\ Kind(jobs[j]) = "http"
           /\ jobs[j].status = "error"
           /\ eng[j].outcome = "error")
            => /\ jobs'[j].status = "error"
               /\ jobs'[j].message = jobs[j].message
               /\ eng[j].responseStatus > 299 => files'[jobs[j].destPath].by # j]_vars

\* An HTTP job that was never cancelled and was answered 503: in error with
\* the status line as message, no file at its destination, the controller
\* dropped, the timer armed.
C32_Witness ==
  \E j \in DOMAIN jobs :
    /\ Kind(jobs[j]) = "http"
    /\ j \notin accepted
    /\ eng[j].responseStatus = 503
    /\ jobs[j].status = "error"
    /\ jobs[j].message = "HTTP error: 503 Service Unavailable"
    /\ files[jobs[j].destPath] = Absent
    /\ ~jobs[j].abortController
    /\ j \in timers

\* ---------------------------------------------------------------- C33
\* This step answers a GET /api/status/:jobId or a DELETE /api/jobs/:jobId.
LookupStep ==
  /\ reply'.op \in {"status", "cancel"}
  /\ reply' # reply

\* C33: a status request or a cancel for an id that is not in the registry
\* is answered 404 with the error 'Job not found' and changes nothing: not
\* the registry, the engines, the torrents, the files, the timers or the
\* cancels accepted.  No id that is in the registry is answered 404.
C33_UnknownJob ==
  [][LookupStep =>
       /\ reply'.id \notin DOMAIN jobs =>
            /\ reply'.code = 404
            /\ reply'.error = "Job not found"
            /\ reply'.status = "none"
            /\ UNCHANGED <<jobs, eng, swarm, wtClient, files, unlinks, timers, accepted,
                           nextId>>
       /\ reply'.id \in DOMAIN jobs => reply'.code # 404]_vars

\* A cancel for a job that was created and has since been evicted, by which
\* time a later job is registered: answered 404.
C33_Witness ==
  /\ reply.op = "cancel"
  /\ reply.code = 404
  /\ reply.error = "Job not found"
  /\ reply.id < nextId
  /\ reply.id \in DOMAIN eng
  /\ reply.id \notin DOMAIN jobs
  /\ DOMAIN jobs # {}

\* ---------------------------------------------------------------- C34
\* The filename the handler derives for request r.
RequestedName(r) == DownloadFilename(ParseURL(r.url).pathname, r.filename)

\* The reason POST /api/download is to give for request r: that of the first
\* check, in the order stated, that r fails; "" when it fails none.
OrderedVerdict(r) ==
  IF r.url = <<>> \/ r.folderKey = <<>> THEN "Missing required fields: url and folderKey"
  ELSE IF OriginVerdict(ParseURL(r.url)) # "" THEN OriginVerdict(ParseURL(r.url))
  ELSE IF EntriesOf(r.folderKey) = {} THEN "Invalid folder key"
  ELSE IF AllowListOutcome(RequestedName(r), Entries,
                           \E i \in 1..Len(Entries) : HasExtension(RequestedName(r), Entries[i]))
            # ""
  THEN AllowListOutcome(RequestedName(r), Entries,
                        \E i \in 1..Len(Entries) : HasExtension(RequestedName(r), Entries[i]))
  ELSE IF ~StrictDescendant(PathOf(r.folderKey), JoinPath(PathOf(r.folderKey), RequestedName(r)))
  THEN "Path traversal detected"
  ELSE ""

TokenIssued == reply'.op = "auth" /\ reply'.code = 200 /\ reply'.status = "token"

\* This step answers a request to a protected endpoint, with auth enabled.
GuardedStep == reply'.op \in ProtectedOps /\ isAuthEnabled

\* C35: the session table gains a token only when a login answers with it,
\* the token is new and its entry ends 8 hours (28,800,000 ms) after the
\* login; an entry never changes.  With auth enabled a request is accepted
\* exactly when its Bearer token has an entry that has not ended (the last
\* accepted instant is the 8 hours' end itself); a request whose token's entry
\* has ended is rejected and removes it, a token once removed has no entry
\* ever after, and no token that was not issued, 'no-auth' included, has an
\* entry.
C35_SessionLifetime ==
  [][/\ TokenIssued =>
          /\ reply'.id = nextToken
          /\ nextToken' = nextToken + 1
          /\ reply'.id \notin DOMAIN sessions
          /\ reply'.id \in DOMAIN sessions'
          /\ sessions'[reply'.id] = now + 28800000
     /\ \A t \in DOMAIN sessions' :
          IF t \in DOMAIN sessions THEN sessions'[t] = sessions[t]
          ELSE TokenIssued /\ reply'.id = t
     /\ GuardedStep =>
          /\ reply'.code # 401 <=>
               /\ request'.scheme = "Bearer"
               /\ request'.token \in DOMAIN sessions
               /\ now <= sessions[request'.token]
          /\ (request'.token \in DOMAIN sessions /\ now > sessions[request'.token]) =>
               /\ reply'.code = 401
               /\ request'.token \notin DOMAIN sessions'
     /\ \A t \in 1..(nextToken - 1) : t \notin DOMAIN sessions => t \notin DOMAIN sessions'
     /\ \A t \in DOMAIN sessions' : t < nextToken' /\ t >= 1 /\ t # NO_AUTH
     /\ ~isAuthEnabled => sessions' = <<>>
     /\ now' >= now]_vars

\* With auth enabled, a request carrying the first token issued was rejected
\* one millisecond after the end of its 8 hours, and the token is no longer
\* in the table.
C35_Witness ==
  /\ isAuthEnabled
  /\ reply.op \in ProtectedOps
  /\ reply.code = 401
  /\ request.scheme = "Bearer"
  /\ request.token = 1
  /\ nextToken > 1
  /\ now = SESSION_TTL_MS + 1
  /\ 1 \notin DOMAIN sessions

\* ---------------------------------------------------------------- C36
\* C36: a job is registered under its id, and while it is registered its
\* id, its type and url (which give its kind), folderKey, destPath and
\* createdAt stay as they were at admission; its filename changes only if
\* it is a torrent job, and then to the name of its torrent.
C36_ImmutableFields ==
  [][/\ \A j \in DOMAIN jobs' : jobs'[j].id = j
     /\ \A j \in DOMAIN jobs' \ DOMAIN jobs : jobs'[j].createdAt = now
     /\ \A j \in DOMAIN jobs \cap DOMAIN jobs' :
          /\ jobs'[j].id = jobs[j].id
          /\ jobs'[j].type = jobs[j].type
          /\ jobs'[j].url = jobs[j].url
          /\ jobs'[j].folderKey = jobs[j].folderKey
          /\ jobs'[j].destPath = jobs[j].destPath
          /\ jobs'[j].createdAt = jobs[j].createdAt
          /\ jobs'[j].filename # jobs[j].filename =>
               /\ Kind(jobs[j]) = "torrent"
               /\ j \in DOMAIN swarm'
               /\ jobs'[j].filename = swarm'[j].name]_vars

\* A torrent job renamed from its metadata and an HTTP job that went
\* through its download, both updated after the instant of their creation.
C36_Witness ==
  \E j, k \in DOMAIN jobs :
    /\ Kind(jobs[j]) = "torrent"
    /\ jobs[j].filename # <<>>
    /\ jobs[j].createdAt < jobs[j].updatedAt
    /\ Kind(jobs[k]) = "http"
    /\ jobs[k].status = "done"
    /\ jobs[k].createdAt < jobs[k].updatedAt

\* ---------------------------------------------------------------- C37
TerminalStatuses == {"done", "error", "cancelled"}

\* C37: a job leaves the registry only by its eviction timer and only with
\* status done, error or cancelled; a timer is armed for a job only in a step
\* that leaves the job with such a status, and the job keeps such a status
\* for as long as its timer is armed; a queued or downloading job is still
\* registered after every step.
C37_EvictedOnlyWhenTerminal ==
  [][\A j \in Ids :
       /\ (j \in DOMAIN jobs /\ j \notin DOMAIN jobs') =>
            /\ jobs[j].status \in TerminalStatuses
            /\ j \in timers
       /\ (j \in timers' /\ j \notin timers) =>
            /\ j \in DOMAIN jobs'
            /\ jobs'[j].status \in TerminalStatuses
       /\ (j \in timers' /\ j \in DOMAIN jobs') => jobs'[j].status \in TerminalStatuses
       /\ (j \in DOMAIN jobs /\ jobs[j].status \in {"queued", "downloading"}) =>
            j \in DOMAIN jobs'
       /\ j \in DOMAIN jobs' => (j \in DOMAIN jobs \/ j = nextId)]_vars

\* A job was evicted while another job, on which a cancel had been accepted
\* and whose engine then started, is downloading and still registered.
C37_Witness ==
  \E j \in DOMAIN eng, k \in DOMAIN jobs :
    /\ j \notin DOMAIN jobs
    /\ j \notin timers
    /\ jobs[k].status = "downloading"
    /\ k \in accepted
    /\ k \notin timers

\* ---------------------------------------------------------------- C38
\* Job b, cancelled, finishes its unwinding: the unlink it issued completes.
UnwindsCancelled(b) ==
  /\ b \in DOMAIN jobs
  /\ jobs[b].status = "cancelled"
  /\ b \in unlinks
  /\ b \notin unlinks'

\* C38: when a cancelled HTTP job b finishes unwinding, a complete file that a
\* different job a, now done, wrote at the same destination path is still
\* there, unchanged.
C38_CancelKeepsOthersFile ==
  [][\A a \in Ids, b \in Ids :
       ( /\ SamePath(a, b)
         /\ jobs[a].status = "done"
         /\ files[jobs[a].destPath] = [by |-> a, complete |-> TRUE]
         /\ UnwindsCancelled(b) )
       => files'[jobs[a].destPath] = files[jobs[a].destPath]]_vars

\* ---------------------------------------------------------------- C39
\* The step changes the status or a progress counter of registered job j.
ChangesStatusOrCounters(j) ==
  \/ jobs'[j].status # jobs[j].status
  \/ jobs'[j].downloadedBytes # jobs[j].downloadedBytes
  \/ jobs'[j].totalBytes # jobs[j].totalBytes
  \/ jobs'[j].peers # jobs[j].peers
  \/ jobs'[j].downloadSpeed # jobs[j].downloadSpeed

\* C39: a step that changes the status or a progress counter of a job stamps
\* its updatedAt with the current instant; updatedAt never decreases and is
\* never earlier than createdAt, from the step that creates the job on.
C39_UpdatedAt ==
  [][\A j \in DOMAIN jobs' :
       /\ jobs'[j].updatedAt >= jobs'[j].createdAt
       /\ j \in DOMAIN jobs =>
            /\ jobs'[j].updatedAt >= jobs[j].updatedAt
            /\ ChangesStatusOrCounters(j) => jobs'[j].updatedAt = now]_vars

\* Both kinds of job have had their counters written at an instant later than
\* their creation: an HTTP job that reported progress and a torrent job that
\* was sampled, each stamped after createdAt.
C39_Witness ==
  \E j \in DOMAIN jobs, k \in DOMAIN jobs :
    /\ Kind(jobs[j]) = "http"
    /\ jobs[j].downloadedBytes # Undef /\ jobs[j].downloadedBytes > 0
    /\ jobs[j].updatedAt > jobs[j].createdAt
    /\ Kind(jobs[k]) = "torrent"
    /\ jobs[k].peers # Undef
    /\ jobs[k].updatedAt > jobs[k].createdAt
    /\ jobs[k].status = "cancelled"

\* ---------------------------------------------------------------- C40
\* The characters [A-Za-z0-9._-], written out.
SafeChars ==
  {"a", "b", "c", "d", "e", "f", "g", "h", "i", "j", "k", "l", "m",
   "n", "o", "p", "q", "r", "s", "t", "u", "v", "w", "x", "y", "z",
   "A", "B", "C", "D", "E", "F", "G", "H", "I", "J", "K", "L", "M",
   "N", "O", "P", "Q", "R", "S", "T", "U", "V", "W", "X", "Y", "Z",
   "0", "1", "2", "3", "4", "5", "6", "7", "8", "9", ".", "_", "-"}

\* Name s has only safe characters and at most 255 of them.
IsSafeName(s) == Len(s) <= 255 /\ \A i \in 1..Len(s) : s[i] \in SafeChars

\* The name request r hands to the sanitizer, as a download and as an upload.
DownloadName(r) ==
  IF r.filename # <<>> THEN r.filename
  ELSE OrDefault(LastSegment(ParseURL(r.url).pathname), DOWNLOAD)
UploadName(r) == OrDefault(r.filename, OrDefault(r.file.originalname, UPLOAD))

\* Every name of the request sanitizes to a safe name, and a job the step
\* admits, of one of the kinds given, carries the sanitized name of its
\* request, or the placeholder of its kind when that name is empty: never an
\* empty filename.
SanitizedAndNamed(kinds) ==
  \A download \in {sanitizeFilename(DownloadName(request'))},
     upload \in {sanitizeFilename(UploadName(request'))} :
    /\ IsSafeName(download)
    /\ IsSafeName(upload)
    /\ \A j \in DOMAIN jobs' \ DOMAIN jobs :
         Kind(jobs'[j]) \in kinds =>
           \A filename \in {jobs'[j].filename} :
             /\ filename # <<>>
             /\ IsSafeName(filename)
             /\ filename = IF Kind(jobs'[j]) = "upload"
                           THEN (IF upload = <<>> THEN UPLOAD ELSE upload)
                           ELSE (IF download = <<>> THEN DOWNLOAD ELSE download)

\* C40 as stated: sanitized names are safe and at most 255 long, and every
\* admitted job, whatever its kind, has the sanitized name or the placeholder
\* as its filename, never the empty string.
C40_NoEmptyFilenameAsStated == [][SanitizedAndNamed({"http", "upload", "torrent"})]_vars

\* C40: sanitized names are safe and at most 255 long, and every admitted
\* HTTP or upload job has the sanitized name as its filename, or the
\* placeholder ('download', 'upload') when the sanitized name is empty; a
\* torrent job is admitted with the empty filename.
C40_SanitizedNames ==
  [][/\ SanitizedAndNamed({"http", "upload"})
     /\ \A j \in DOMAIN jobs' \ DOMAIN jobs :
          Kind(jobs'[j]) = "torrent" => jobs'[j].filename = <<>>]_vars

\* The override '..' was sent, which sanitizes to the empty string: an HTTP
\* job was admitted as 'download' and an upload as 'upload'.
C40_Witness ==
  \E j \in DOMAIN jobs, k \in DOMAIN jobs :
    /\ request.filename = <<".", ".">>
    /\ Kind(jobs[j]) = "http" /\ jobs[j].filename = DOWNLOAD
    /\ Kind(jobs[k]) = "upload" /\ jobs[k].filename = UPLOAD

====
